---- MODULE Spec2Model ----
(***************************************************************************)
(* Desk-height controller: HeightController (sensor frame -> consensus ->  *)
(* moving average -> height) and MovementController (target -> motor pins) *)
(* of src/src, as a state machine.                                         *)
(***************************************************************************)
EXTENDS Integers, Sequences, FiniteSets, TLC

VARIABLES
    now,      \* millis()
    cfg,      \* SystemConfig (cached configuration)
    hc,       \* the HeightController object
    mc,       \* the MovementController object and the two motor GPIO outputs
    last,     \* the operation that ran last: name, argument, return value, state_ before it
    frames,   \* number of sensor frames consumed so far
    loopc,    \* control-loop context: position inside MovementController::update()
    webc,     \* command-handler context: position inside setTargetHeight()/emergencyStop()
    filter,   \* a MovingAverageFilter object used on its own
    calls,    \* the addSample()/reset() calls made on filter since its construction
    dc        \* the legacy DistanceController object and its two control GPIO outputs

vars == <<now, cfg, hc, mc, last, frames, loopc, webc, filter, calls, dc>>

----------------------------------------------------------------------------
(* Program constants *)

DEFAULT_MIN_HEIGHT_CM == 50
DEFAULT_MAX_HEIGHT_CM == 125
DEFAULT_TOLERANCE_MM == 10
DEFAULT_STABILIZATION_DURATION_MS == 2000
MIN_MOVEMENT_TIMEOUT_MS == 10000
DEFAULT_FILTER_WINDOW_SIZE == 5
DEFAULT_MOVEMENT_TIMEOUT_MS == 30000
DEFAULT_CALIBRATION_CONSTANT_CM == 0
SENSOR_MAX_RANGE_MM == 4000
SENSOR_MIN_VALID_MM == 10
READING_STALE_TIMEOUT_MS == 1000
MULTI_ZONE_OUTLIER_THRESHOLD_MM == 30
MULTI_ZONE_MIN_VALID_ZONES == 4
MULTI_ZONE_TOTAL_ZONES == 16
MAX_HEIGHT_CLAMP_CM == 200
NUM_SAMPLES == 10

(* Bounds of the model *)

TickMs == 10000       \* granularity at which millis() is observed
MaxTicks == 2         \* millis() stays below (MaxTicks + 1) * TickMs
MaxFrames == 2        \* sensor frames delivered in one run
MaxCalls == 6         \* addSample()/reset() calls made on one filter
MaxMedianLen == 4     \* values passed to computeMedian, all orders enumerated
MaxOutlierLen == 3    \* values passed to filterOutliers
MaxReportingZones == 5  \* zones of a frame that report anything at all

\* Calibration constants found in persistent storage at start-up (0 = uncalibrated).
CalibrationConstants == {0, 20}
\* Distances (mm) all zones of a delivered frame report.
FrameDistances == {800, 900}
\* Heights (cm) requested through setTargetHeight / setTargetFromPreset.
TargetHeights == {49, 101, 126}
\* Heights (cm) stored in the preset activated through setTargetFromPreset.
PresetHeights == {100}
PresetSlots == {1}
\* Heights (cm) posted to the web handler while the control loop is running.
ConcTargetHeights == {100, 110}

MsgSensor == "Sensor reading invalid during movement"
MsgTimeout == "Movement timeout - target not reached"
MsgNotCalibrated == "System not calibrated"

----------------------------------------------------------------------------
(* Fixed-width integer conversions *)

ToUInt16(x) == x % 65536
ToInt16(x) == LET y == x % 65536 IN IF y >= 32768 THEN y - 65536 ELSE y
\* unsigned long subtraction of two millis() values; millis() does not wrap
\* within the modelled run (it wraps after 2^32 ms), so the difference is exact.
Elapsed(t, since) == t - since
Abs(x) == IF x < 0 THEN -x ELSE x

----------------------------------------------------------------------------
(* MovingAverageFilter: buffer_ is 1-based here, head_ is the 0-based index *)

clampWindowSize(size) ==
    IF size < 3 THEN 3 ELSE IF size > 10 THEN 10 ELSE size

NewFilter(windowSize) ==
    LET w == clampWindowSize(windowSize) IN
    [windowSize_ |-> w, head_ |-> 0, sampleCount_ |-> 0,
     buffer_ |-> [i \in 1..w |-> 0]]

\* addSample() counting every sample, a full window included.
addSampleCountsOn(f, sample) ==
    [f EXCEPT !.buffer_[f.head_ + 1] = sample,
              !.head_ = (f.head_ + 1) % f.windowSize_,
              !.sampleCount_ = f.sampleCount_ + 1]

addSample(f, sample) ==
    [f EXCEPT !.buffer_[f.head_ + 1] = sample,
              !.head_ = (f.head_ + 1) % f.windowSize_,
              !.sampleCount_ = IF f.sampleCount_ < f.windowSize_
                               THEN f.sampleCount_ + 1 ELSE f.sampleCount_]

RECURSIVE SumFirst(_, _)
SumFirst(buf, n) == IF n = 0 THEN 0 ELSE buf[n] + SumFirst(buf, n - 1)

getAverage(f) ==
    IF f.sampleCount_ = 0 THEN 0
    ELSE ToUInt16(SumFirst(f.buffer_, f.sampleCount_) \div f.sampleCount_)

\* reset() that leaves head_ where it was.
resetFilterStateKeepsHead(f) ==
    [f EXCEPT !.sampleCount_ = 0,
              !.buffer_ = [i \in 1..f.windowSize_ |-> 0]]

resetFilterState(f) ==
    [f EXCEPT !.head_ = 0, !.sampleCount_ = 0,
              !.buffer_ = [i \in 1..f.windowSize_ |-> 0]]

----------------------------------------------------------------------------
(* Spatial consensus over one 16-zone frame.  A frame is a sequence of     *)
(* records [status, distance], distance being the sensor's int16 value.    *)

\* isZoneValid() with the upper range bound excluded.
isZoneValidBelowMax(status, distance) ==
    /\ status \notin {0, 255}
    /\ status \in {5, 6, 9}
    /\ distance >= SENSOR_MIN_VALID_MM
    /\ distance < SENSOR_MAX_RANGE_MM

\* isZoneValid() without the lower range bound.
isZoneValidNoMinimum(status, distance) ==
    /\ status \notin {0, 255}
    /\ status \in {5, 6, 9}
    /\ distance <= SENSOR_MAX_RANGE_MM

isZoneValid(status, distance) ==
    /\ status \notin {0, 255}
    /\ status \in {5, 6, 9}
    /\ distance >= SENSOR_MIN_VALID_MM
    /\ distance <= SENSOR_MAX_RANGE_MM

RECURSIVE InsertSorted(_, _)
InsertSorted(s, key) ==
    IF s = <<>> THEN <<key>>
    ELSE IF s[Len(s)] > key
         THEN Append(InsertSorted(SubSeq(s, 1, Len(s) - 1), key), s[Len(s)])
         ELSE Append(s, key)

RECURSIVE InsertionSort(_)
InsertionSort(s) ==
    IF s = <<>> THEN <<>>
    ELSE InsertSorted(InsertionSort(SubSeq(s, 1, Len(s) - 1)), s[Len(s)])

\* computeMedian() returning the upper central value for an even count.
computeMedianUpper(values) ==
    LET count == Len(values)
        sorted == InsertionSort(values) IN
    IF count = 0 THEN 0
    ELSE IF count = 1 THEN values[1]
    ELSE sorted[count \div 2 + 1]

\* computeMedian() averaging the two central values for an even count.
computeMedianAverages(values) ==
    LET count == Len(values)
        sorted == InsertionSort(values) IN
    IF count = 0 THEN 0
    ELSE IF count = 1 THEN values[1]
    ELSE IF count % 2 = 0
    THEN ToUInt16((sorted[count \div 2] + sorted[count \div 2 + 1]) \div 2)
    ELSE sorted[count \div 2 + 1]

computeMedian(values) ==
    LET count == Len(values)
        sorted == InsertionSort(values) IN
    IF count = 0 THEN 0
    ELSE IF count = 1 THEN values[1]
    ELSE IF count % 2 = 0 THEN sorted[count \div 2]
    ELSE sorted[count \div 2 + 1]

RECURSIVE SumSeq(_)
SumSeq(s) == IF s = <<>> THEN 0 ELSE s[1] + SumSeq(Tail(s))

computeMean(values) ==
    IF Len(values) = 0 THEN 0
    ELSE ToUInt16(SumSeq(values) \div Len(values))

\* filterOutliers() with a strict threshold.
filterOutliersStrict(values, median) ==
    [i \in 1..Len(values) |->
        LET deviation == IF values[i] >= median THEN values[i] - median
                         ELSE median - values[i] IN
        deviation < MULTI_ZONE_OUTLIER_THRESHOLD_MM]

\* keep_flags of filterOutliers; kept_count is the number of TRUE flags.
filterOutliers(values, median) ==
    [i \in 1..Len(values) |->
        LET deviation == IF values[i] >= median THEN values[i] - median
                         ELSE median - values[i] IN
        deviation <= MULTI_ZONE_OUTLIER_THRESHOLD_MM]

\* kept_count of filterOutliers: the counter incremented for every kept value.
RECURSIVE filterOutliersKeptCount(_, _)
filterOutliersKeptCount(values, median) ==
    IF values = <<>> THEN 0
    ELSE LET v == values[Len(values)]
             deviation == IF v >= median THEN v - median ELSE median - v
             before == filterOutliersKeptCount(SubSeq(values, 1, Len(values) - 1),
                                               median) IN
         IF deviation <= MULTI_ZONE_OUTLIER_THRESHOLD_MM THEN before + 1 ELSE before

RECURSIVE SelectValid(_)
SelectValid(frame) ==
    IF frame = <<>> THEN <<>>
    ELSE LET z == frame[1]
             distance == IF z.distance > 0 THEN ToUInt16(z.distance) ELSE 0 IN
         IF isZoneValid(z.status, distance)
         THEN <<distance>> \o SelectValid(Tail(frame))
         ELSE SelectValid(Tail(frame))

RECURSIVE SelectKept(_, _, _)
SelectKept(values, flags, i) ==
    IF i > Len(values) THEN <<>>
    ELSE IF flags[i] THEN <<values[i]>> \o SelectKept(values, flags, i + 1)
    ELSE SelectKept(values, flags, i + 1)

computeMultiZoneConsensus(frame) ==
    LET valid_distances == SelectValid(frame)
        valid_count == Len(valid_distances)
        median == computeMedian(valid_distances)
        keep_flags == filterOutliers(valid_distances, median)
        kept_values == SelectKept(valid_distances, keep_flags, 1)
        kept_count == Len(kept_values) IN
    IF valid_count < MULTI_ZONE_MIN_VALID_ZONES
    THEN [consensus_distance_mm |-> 0, valid_zone_count |-> valid_count,
          outlier_count |-> 0, is_reliable |-> FALSE]
    ELSE IF kept_count = 0
    THEN [consensus_distance_mm |-> 0, valid_zone_count |-> valid_count,
          outlier_count |-> valid_count - kept_count, is_reliable |-> FALSE]
    ELSE [consensus_distance_mm |-> computeMean(kept_values),
          valid_zone_count |-> valid_count,
          outlier_count |-> valid_count - kept_count, is_reliable |-> TRUE]

----------------------------------------------------------------------------
(* Height model *)

calculateHeight(c, filtered_mm) ==
    LET calibration == ToInt16(c.calibrationConstant_)
        distance_cm == ToInt16(filtered_mm \div 10)
        height == ToInt16(calibration + distance_cm) IN
    IF calibration = 0 THEN 0
    ELSE IF height < 0 THEN 0
    ELSE IF height > MAX_HEIGHT_CLAMP_CM THEN MAX_HEIGHT_CLAMP_CM
    ELSE ToUInt16(height)

isCalibrated(c) == c.calibrationConstant_ /= 0

isValidHeight(c, height) == height >= c.minHeight_ /\ height <= c.maxHeight_

----------------------------------------------------------------------------
(* SystemConfiguration.  The record holds the cached values and, in         *)
(* preferences_, the NVS namespace as a function from the keys present to   *)
(* their stored values.  writeOk is whether the NVS write succeeds          *)
(* (putUShort / putUChar return 0 when it does not).                        *)

KEY_CAL_CONST == "cal_const"
KEY_MIN_HEIGHT == "min_h"
KEY_MAX_HEIGHT == "max_h"
KEY_TOLERANCE == "tolerance"
KEY_STAB_DUR == "stab_dur"
KEY_MOVE_TIMEOUT == "move_timeout"
KEY_FILTER_WIN == "filter_win"

NoPreferences == [k \in {} |-> 0]

putValue(p, key, value) ==
    [k \in DOMAIN p \cup {key} |-> IF k = key THEN value ELSE p[k]]

applyDefaults(c) ==
    [c EXCEPT !.calibrationConstant_ = DEFAULT_CALIBRATION_CONSTANT_CM,
              !.minHeight_ = DEFAULT_MIN_HEIGHT_CM,
              !.maxHeight_ = DEFAULT_MAX_HEIGHT_CM,
              !.tolerance_ = DEFAULT_TOLERANCE_MM,
              !.stabilizationDuration_ = DEFAULT_STABILIZATION_DURATION_MS,
              !.movementTimeout_ = DEFAULT_MOVEMENT_TIMEOUT_MS,
              !.filterWindowSize_ = DEFAULT_FILTER_WINDOW_SIZE]

saveUInt16(c, key, value, writeOk) ==
    IF writeOk
    THEN [c |-> [c EXCEPT !.preferences_ = putValue(@, key, ToUInt16(value))],
          ret |-> TRUE]
    ELSE [c |-> c, ret |-> FALSE]

saveUInt8(c, key, value, writeOk) ==
    IF writeOk
    THEN [c |-> [c EXCEPT !.preferences_ = putValue(@, key, value % 256)],
          ret |-> TRUE]
    ELSE [c |-> c, ret |-> FALSE]

setCalibrationConstant(c, value, writeOk) ==
    LET s == saveUInt16(c, KEY_CAL_CONST, value, writeOk) IN
    IF s.ret THEN [c |-> [s.c EXCEPT !.calibrationConstant_ = value], ret |-> TRUE]
    ELSE [c |-> s.c, ret |-> FALSE]

\* setMinHeight() that accepts a minimum equal to the maximum.
setMinHeightUpToMax(c, value, writeOk) ==
    LET s == saveUInt16(c, KEY_MIN_HEIGHT, value, writeOk) IN
    IF value > c.maxHeight_ THEN [c |-> c, ret |-> FALSE]
    ELSE IF s.ret THEN [c |-> [s.c EXCEPT !.minHeight_ = value], ret |-> TRUE]
    ELSE [c |-> s.c, ret |-> FALSE]

setMinHeight(c, value, writeOk) ==
    LET s == saveUInt16(c, KEY_MIN_HEIGHT, value, writeOk) IN
    IF value >= c.maxHeight_ THEN [c |-> c, ret |-> FALSE]
    ELSE IF s.ret THEN [c |-> [s.c EXCEPT !.minHeight_ = value], ret |-> TRUE]
    ELSE [c |-> s.c, ret |-> FALSE]

setMaxHeight(c, value, writeOk) ==
    LET s == saveUInt16(c, KEY_MAX_HEIGHT, value, writeOk) IN
    IF value <= c.minHeight_ THEN [c |-> c, ret |-> FALSE]
    ELSE IF s.ret THEN [c |-> [s.c EXCEPT !.maxHeight_ = value], ret |-> TRUE]
    ELSE [c |-> s.c, ret |-> FALSE]

\* setTolerance() caching the clamped value whether or not it was persisted.
setToleranceCachesAlways(c, value, writeOk) ==
    LET clamped == IF value < 5 THEN 5 ELSE IF value > 50 THEN 50 ELSE value
        s == saveUInt16(c, KEY_TOLERANCE, clamped, writeOk) IN
    [c |-> [s.c EXCEPT !.tolerance_ = clamped], ret |-> s.ret]

setTolerance(c, value, writeOk) ==
    LET clamped == IF value < 5 THEN 5 ELSE IF value > 50 THEN 50 ELSE value
        s == saveUInt16(c, KEY_TOLERANCE, clamped, writeOk) IN
    IF s.ret THEN [c |-> [s.c EXCEPT !.tolerance_ = clamped], ret |-> TRUE]
    ELSE [c |-> s.c, ret |-> FALSE]

setStabilizationDuration(c, value, writeOk) ==
    LET clamped == IF value < 500 THEN 500 ELSE IF value > 10000 THEN 10000 ELSE value
        s == saveUInt16(c, KEY_STAB_DUR, clamped, writeOk) IN
    IF s.ret THEN [c |-> [s.c EXCEPT !.stabilizationDuration_ = clamped], ret |-> TRUE]
    ELSE [c |-> s.c, ret |-> FALSE]

setMovementTimeout(c, value, writeOk) ==
    LET clamped == IF value < 10000 THEN 10000 ELSE IF value > 60000 THEN 60000 ELSE value
        s == saveUInt16(c, KEY_MOVE_TIMEOUT, clamped, writeOk) IN
    IF s.ret THEN [c |-> [s.c EXCEPT !.movementTimeout_ = clamped], ret |-> TRUE]
    ELSE [c |-> s.c, ret |-> FALSE]

setFilterWindowSize(c, value, writeOk) ==
    LET clamped == clampWindowSize(value)
        s == saveUInt8(c, KEY_FILTER_WIN, clamped, writeOk) IN
    IF s.ret THEN [c |-> [s.c EXCEPT !.filterWindowSize_ = clamped], ret |-> TRUE]
    ELSE [c |-> s.c, ret |-> FALSE]

\* factoryReset(); failing is the set of keys whose write fails.
factoryReset(c, failing) ==
    LET c0 == applyDefaults([c EXCEPT !.preferences_ = NoPreferences])
        s1 == saveUInt16(c0, KEY_CAL_CONST, c0.calibrationConstant_,
                         KEY_CAL_CONST \notin failing)
        s2 == saveUInt16(s1.c, KEY_MIN_HEIGHT, c0.minHeight_, KEY_MIN_HEIGHT \notin failing)
        s3 == saveUInt16(s2.c, KEY_MAX_HEIGHT, c0.maxHeight_, KEY_MAX_HEIGHT \notin failing)
        s4 == saveUInt16(s3.c, KEY_TOLERANCE, c0.tolerance_, KEY_TOLERANCE \notin failing)
        s5 == saveUInt16(s4.c, KEY_STAB_DUR, c0.stabilizationDuration_,
                         KEY_STAB_DUR \notin failing)
        s6 == saveUInt16(s5.c, KEY_MOVE_TIMEOUT, c0.movementTimeout_,
                         KEY_MOVE_TIMEOUT \notin failing)
        s7 == saveUInt8(s6.c, KEY_FILTER_WIN, c0.filterWindowSize_,
                        KEY_FILTER_WIN \notin failing) IN
    [c |-> s7.c,
     ret |-> s1.ret /\ s2.ret /\ s3.ret /\ s4.ret /\ s5.ret /\ s6.ret /\ s7.ret]

----------------------------------------------------------------------------
(* HeightController *)

UniformFrame(status, d) == [z \in 1..MULTI_ZONE_TOTAL_ZONES |-> [status |-> status, distance |-> d]]

\* Frames the sensor delivers: every zone at one distance with status 5, or no target at all.
Frames == {UniformFrame(5, d) : d \in FrameDistances} \cup {UniformFrame(0, 0)}

\* update() feeding the temporal filter before looking at is_reliable.
heightUpdateFeedsUnreliable(h, c, t, dataReady, rangingOk, frame) ==
    LET r == h.currentReading_
        consensus == computeMultiZoneConsensus(frame)
        filter2 == addSample(h.filter_, consensus.consensus_distance_mm)
        filtered == getAverage(filter2) IN
    IF ~h.sensorInitialized_
    THEN [h EXCEPT !.currentReading_.validity = "INVALID"]
    ELSE IF ~dataReady
    THEN IF Elapsed(t, r.timestamp_ms) > READING_STALE_TIMEOUT_MS
         THEN [h EXCEPT !.currentReading_.validity = "STALE"]
         ELSE h
    ELSE IF ~rangingOk
    THEN [h EXCEPT !.currentReading_.validity = "INVALID"]
    ELSE IF ~consensus.is_reliable
    THEN [h EXCEPT !.currentReading_.timestamp_ms = t,
                   !.currentReading_.validity = "INVALID",
                   !.filter_ = filter2,
                   !.lastConsensus_ = consensus]
    ELSE [h EXCEPT !.currentReading_ =
                       [raw_distance_mm |-> consensus.consensus_distance_mm,
                        filtered_distance_mm |-> filtered,
                        calculated_height_cm |-> calculateHeight(c, filtered),
                        timestamp_ms |-> t,
                        validity |-> "VALID"],
                   !.filter_ = filter2,
                   !.lastConsensus_ = consensus]

\* update() marking the reading stale from an age of READING_STALE_TIMEOUT_MS on.
heightUpdateStaleAtTimeout(h, c, t, dataReady, rangingOk, frame) ==
    LET r == h.currentReading_
        consensus == computeMultiZoneConsensus(frame)
        filter2 == addSample(h.filter_, consensus.consensus_distance_mm)
        filtered == getAverage(filter2) IN
    IF ~h.sensorInitialized_
    THEN [h EXCEPT !.currentReading_.validity = "INVALID"]
    ELSE IF ~dataReady
    THEN IF Elapsed(t, r.timestamp_ms) >= READING_STALE_TIMEOUT_MS
         THEN [h EXCEPT !.currentReading_.validity = "STALE"]
         ELSE h
    ELSE IF ~rangingOk
    THEN [h EXCEPT !.currentReading_.validity = "INVALID"]
    ELSE IF ~consensus.is_reliable
    THEN [h EXCEPT !.currentReading_.timestamp_ms = t,
                   !.currentReading_.validity = "INVALID",
                   !.lastConsensus_ = consensus]
    ELSE [h EXCEPT !.currentReading_ =
                       [raw_distance_mm |-> consensus.consensus_distance_mm,
                        filtered_distance_mm |-> filtered,
                        calculated_height_cm |-> calculateHeight(c, filtered),
                        timestamp_ms |-> t,
                        validity |-> "VALID"],
                   !.filter_ = filter2,
                   !.lastConsensus_ = consensus]

\* HeightController::update(); dataReady, rangingOk and frame are what the sensor answers.
heightUpdate(h, c, t, dataReady, rangingOk, frame) ==
    LET r == h.currentReading_
        consensus == computeMultiZoneConsensus(frame)
        filter2 == addSample(h.filter_, consensus.consensus_distance_mm)
        filtered == getAverage(filter2) IN
    IF ~h.sensorInitialized_
    THEN [h EXCEPT !.currentReading_.validity = "INVALID"]
    ELSE IF ~dataReady
    THEN IF Elapsed(t, r.timestamp_ms) > READING_STALE_TIMEOUT_MS
         THEN [h EXCEPT !.currentReading_.validity = "STALE"]
         ELSE h
    ELSE IF ~rangingOk
    THEN [h EXCEPT !.currentReading_.validity = "INVALID"]
    ELSE IF ~consensus.is_reliable
    THEN [h EXCEPT !.currentReading_.timestamp_ms = t,
                   !.currentReading_.validity = "INVALID",
                   !.lastConsensus_ = consensus]
    ELSE [h EXCEPT !.currentReading_ =
                       [raw_distance_mm |-> consensus.consensus_distance_mm,
                        filtered_distance_mm |-> filtered,
                        calculated_height_cm |-> calculateHeight(c, filtered),
                        timestamp_ms |-> t,
                        validity |-> "VALID"],
                   !.filter_ = filter2,
                   !.lastConsensus_ = consensus]

\* readSensor(); zone is what the centre zone (zone 5) of the frame reports.
readSensor(rangingOk, zone) ==
    LET status == zone.status
        distance == ToUInt16(zone.distance) IN
    IF ~rangingOk THEN 0
    ELSE IF status = 0 \/ status = 255 THEN 0
    ELSE distance

validateReading(reading) ==
    IF reading = 0 THEN "INVALID"
    ELSE IF reading < SENSOR_MIN_VALID_MM THEN "INVALID"
    ELSE IF reading > SENSOR_MAX_RANGE_MM THEN "INVALID"
    ELSE "VALID"

\* The sample loop of calibrate() over samples[1..i]: sum and validReadings.
RECURSIVE SumOfValid(_, _)
SumOfValid(samples, i) ==
    IF i = 0 THEN 0
    ELSE LET raw == readSensor(samples[i].rangingOk, samples[i].zone) IN
         (IF validateReading(raw) = "VALID" THEN raw ELSE 0) + SumOfValid(samples, i - 1)

RECURSIVE CountOfValid(_, _)
CountOfValid(samples, i) ==
    IF i = 0 THEN 0
    ELSE LET raw == readSensor(samples[i].rangingOk, samples[i].zone) IN
         (IF validateReading(raw) = "VALID" THEN 1 ELSE 0) + CountOfValid(samples, i - 1)

CollectSamples(samples, i) ==
    [sum |-> SumOfValid(samples, i), validReadings |-> CountOfValid(samples, i)]

\* calibrate() resetting the filter before the constant is persisted.
calibrateResetsFirst(h, c, known_height_cm, samples, writeOk) ==
    LET got == CollectSamples(samples, NUM_SAMPLES)
        avg_reading_mm == ToUInt16(got.sum \div got.validReadings)
        calibration_constant ==
            ToInt16(ToInt16(known_height_cm) - ToInt16(avg_reading_mm \div 10))
        s == setCalibrationConstant(c, calibration_constant, writeOk)
        h2 == [h EXCEPT !.filter_ = resetFilterState(@)] IN
    IF ~h.sensorInitialized_ THEN [h |-> h, c |-> c, ret |-> FALSE]
    ELSE IF got.validReadings < NUM_SAMPLES \div 2 THEN [h |-> h, c |-> c, ret |-> FALSE]
    ELSE IF ~s.ret THEN [h |-> h2, c |-> s.c, ret |-> FALSE]
    ELSE [h |-> h2, c |-> s.c, ret |-> TRUE]

\* calibrate(); samples are the NUM_SAMPLES answers of the sensor in the loop.
calibrate(h, c, known_height_cm, samples, writeOk) ==
    LET got == CollectSamples(samples, NUM_SAMPLES)
        avg_reading_mm == ToUInt16(got.sum \div got.validReadings)
        calibration_constant ==
            ToInt16(ToInt16(known_height_cm) - ToInt16(avg_reading_mm \div 10))
        s == setCalibrationConstant(c, calibration_constant, writeOk) IN
    IF ~h.sensorInitialized_ THEN [h |-> h, c |-> c, ret |-> FALSE]
    ELSE IF got.validReadings < NUM_SAMPLES \div 2 THEN [h |-> h, c |-> c, ret |-> FALSE]
    ELSE IF ~s.ret THEN [h |-> h, c |-> s.c, ret |-> FALSE]
    ELSE [h |-> [h EXCEPT !.filter_ = resetFilterState(@)], c |-> s.c, ret |-> TRUE]

getCurrentHeight(h) == h.currentReading_.calculated_height_cm
isValid(h) == h.currentReading_.validity = "VALID"
getReadingAge(h, t) == Elapsed(t, h.currentReading_.timestamp_ms)

----------------------------------------------------------------------------
(* MovementController.  mc.up / mc.down are the levels of PIN_MOTOR_UP and  *)
(* PIN_MOTOR_DOWN; mc.writes lists the digitalWrite calls of the operation  *)
(* that ran last (call = which setMotorPins call of that operation), each   *)
(* with the pin levels right after it; mc.notified lists the status         *)
(* callback invocations of that operation (a callback being registered),    *)
(* each with its arguments and, in at, the state and pin levels the         *)
(* callback finds.  target_.activation_timestamp is written by              *)
(* setTargetHeight and read nowhere; it is not part of mc.                  *)

isMoving(m) == m.state_ \in {"MOVING_UP", "MOVING_DOWN"}

digitalWrite(m, call, pin, level) ==
    LET up2 == IF pin = "UP" THEN level ELSE m.up
        down2 == IF pin = "DOWN" THEN level ELSE m.down IN
    [m EXCEPT !.up = up2, !.down = down2,
              !.writes = Append(@, [call |-> call, pin |-> pin, level |-> level,
                                    up |-> up2, down |-> down2])]

\* setMotorPins asserting the requested pin before releasing the opposite one.
MotorPinWritesHighFirst(state) ==
    CASE state = "MOVING_UP" -> << <<"UP", TRUE>>, <<"DOWN", FALSE>> >>
      [] state = "MOVING_DOWN" -> << <<"DOWN", TRUE>>, <<"UP", FALSE>> >>
      [] OTHER -> << <<"UP", FALSE>>, <<"DOWN", FALSE>> >>

\* setMotorPins writing the UP pin twice in its stop branch.
MotorPinWritesStopUpTwice(state) ==
    CASE state = "MOVING_UP" -> << <<"DOWN", FALSE>>, <<"UP", TRUE>> >>
      [] state = "MOVING_DOWN" -> << <<"UP", FALSE>>, <<"DOWN", TRUE>> >>
      [] OTHER -> << <<"UP", FALSE>>, <<"UP", FALSE>> >>

\* The digitalWrite calls of setMotorPins(state), in program order.
MotorPinWrites(state) ==
    CASE state = "MOVING_UP" -> << <<"DOWN", FALSE>>, <<"UP", TRUE>> >>
      [] state = "MOVING_DOWN" -> << <<"UP", FALSE>>, <<"DOWN", TRUE>> >>
      [] OTHER -> << <<"UP", FALSE>>, <<"DOWN", FALSE>> >>

NextCall(m) == IF m.writes = <<>> THEN 1 ELSE m.writes[Len(m.writes)].call + 1

setMotorPins(m, state) ==
    LET w == MotorPinWrites(state)
        call == NextCall(m) IN
    digitalWrite(digitalWrite(m, call, w[1][1], w[1][2]), call, w[2][1], w[2][2])

\* setState after its pin update: error message, stabilization timer, callback.
setStateTail(m, newState, message, t) ==
    [m EXCEPT !.lastError_ = IF newState = "ERROR" THEN message ELSE @,
              !.stabilizationStartTime_ = IF newState = "STABILIZING" THEN t ELSE @,
              !.notified = Append(@, [state |-> newState, message |-> message,
                                      at |-> [state_ |-> m.state_, up |-> m.up,
                                              down |-> m.down]])]

\* setState without its state_ != newState guard.
setStateUnguarded(m, newState, message, t) ==
    setStateTail(setMotorPins([m EXCEPT !.state_ = newState], newState),
                 newState, message, t)

setState(m, newState, message, t) ==
    IF m.state_ /= newState
    THEN setStateTail(setMotorPins([m EXCEPT !.state_ = newState], newState),
                      newState, message, t)
    ELSE m

diff_mm(m, h) ==
    ToInt16((ToInt16(m.target_.target_height_cm) - ToInt16(getCurrentHeight(h))) * 10)

isWithinTolerance(m, h) ==
    /\ m.target_.active
    /\ Abs(diff_mm(m, h)) <= ToInt16(m.target_.tolerance_mm)

\* determineDirection with the comparison of target and height reversed.
determineDirectionReversed(m, h) ==
    IF ~m.target_.active THEN "IDLE"
    ELSE IF Abs(diff_mm(m, h)) <= ToInt16(m.target_.tolerance_mm) THEN "IDLE"
    ELSE IF m.target_.target_height_cm < getCurrentHeight(h) THEN "MOVING_UP"
    ELSE "MOVING_DOWN"

determineDirection(m, h) ==
    IF ~m.target_.active THEN "IDLE"
    ELSE IF Abs(diff_mm(m, h)) <= ToInt16(m.target_.tolerance_mm) THEN "IDLE"
    ELSE IF m.target_.target_height_cm > getCurrentHeight(h) THEN "MOVING_UP"
    ELSE "MOVING_DOWN"

\* checkTimeout taking the configured timeout for seconds.
checkTimeoutSeconds(m, c, t) ==
    /\ isMoving(m)
    /\ Elapsed(t, m.movementStartTime_) > c.movementTimeout_ * 1000

\* checkTimeout measuring from the stabilization timer.
checkTimeoutSinceStabilizing(m, c, t) ==
    /\ isMoving(m)
    /\ Elapsed(t, m.stabilizationStartTime_) > c.movementTimeout_

checkTimeout(m, c, t) ==
    /\ isMoving(m)
    /\ Elapsed(t, m.movementStartTime_) > c.movementTimeout_

checkSensorValidity(h, t) ==
    isValid(h) \/ getReadingAge(h, t) < READING_STALE_TIMEOUT_MS

\* What a handler decided before it calls setState / setMotorPins:
\* kind says which call follows, m carries the fields it has already assigned.
Decision(kind, m, newState, message) ==
    [kind |-> kind, m |-> m, newState |-> newState, message |-> message]

handleIdleState(m, h, t) ==
    LET direction == determineDirection(m, h) IN
    IF m.target_.active /\ direction /= "IDLE"
    THEN Decision("setState", [m EXCEPT !.movementStartTime_ = t], direction,
                  "Starting movement to target")
    ELSE Decision("none", m, m.state_, "")

handleMovingState(m, h) ==
    LET desiredDirection == determineDirection(m, h) IN
    IF isWithinTolerance(m, h)
    THEN Decision("setState", m, "STABILIZING", "Target reached, stabilizing")
    ELSE IF desiredDirection /= m.state_ /\ desiredDirection /= "IDLE"
    THEN Decision("setState", m, desiredDirection, "Direction changed")
    ELSE Decision("none", m, m.state_, "")

\* handleStabilizingState restarting the movement timer when it resumes.
handleStabilizingStateRestartsTimer(m, h, c, t) ==
    LET direction == determineDirection(m, h) IN
    IF ~isWithinTolerance(m, h)
    THEN IF direction /= "IDLE"
         THEN Decision("setState", [m EXCEPT !.movementStartTime_ = t], direction,
                       "Drifted outside tolerance, resuming movement")
         ELSE Decision("none", m, m.state_, "")
    ELSE IF Elapsed(t, m.stabilizationStartTime_) >= c.stabilizationDuration_
    THEN Decision("setState", [m EXCEPT !.target_.active = FALSE], "IDLE",
                  "Target reached and stable")
    ELSE Decision("none", m, m.state_, "")

handleStabilizingState(m, h, c, t) ==
    LET direction == determineDirection(m, h) IN
    IF ~isWithinTolerance(m, h)
    THEN IF direction /= "IDLE"
         THEN Decision("setState", m, direction,
                       "Drifted outside tolerance, resuming movement")
         ELSE Decision("none", m, m.state_, "")
    ELSE IF Elapsed(t, m.stabilizationStartTime_) >= c.stabilizationDuration_
    THEN Decision("setState", [m EXCEPT !.target_.active = FALSE], "IDLE",
                  "Target reached and stable")
    ELSE Decision("none", m, m.state_, "")

\* handleErrorState leaving ERROR by itself.
handleErrorStateRecovers(m) == Decision("setState", m, "IDLE", "Recovered")

handleErrorState(m) == Decision("setMotorPins", m, "ERROR", "")

\* MovementController::update() up to the call it ends with.
updateDecision(m, h, c, t) ==
    IF ~checkSensorValidity(h, t) /\ isMoving(m)
    THEN Decision("setState", m, "ERROR", MsgSensor)
    ELSE IF isMoving(m) /\ checkTimeout(m, c, t)
    THEN Decision("setState", m, "ERROR", MsgTimeout)
    ELSE CASE m.state_ = "IDLE" -> handleIdleState(m, h, t)
           [] isMoving(m) -> handleMovingState(m, h)
           [] m.state_ = "STABILIZING" -> handleStabilizingState(m, h, c, t)
           [] OTHER -> handleErrorState(m)

Perform(d, t) ==
    CASE d.kind = "setState" -> setState(d.m, d.newState, d.message, t)
      [] d.kind = "setMotorPins" -> setMotorPins(d.m, d.newState)
      [] OTHER -> d.m

update(m, h, c, t) == Perform(updateDecision(m, h, c, t), t)

\* setTargetHeight storing the target before it validates the request.
setTargetDecisionStoresFirst(m, h, c, t, height_cm) ==
    LET m1 == [m EXCEPT !.target_ =
                   [target_height_cm |-> height_cm,
                    tolerance_mm |-> c.tolerance_,
                    source |-> "MANUAL", source_id |-> 0, active |-> TRUE]]
        direction == determineDirection(m1, h) IN
    IF ~isValidHeight(c, height_cm) \/ ~isCalibrated(c) \/ m.state_ = "ERROR"
    THEN [ret |-> FALSE, d |-> Decision("none", m1, m.state_, "")]
    ELSE IF direction = "IDLE"
    THEN [ret |-> TRUE,
          d |-> Decision("none", [m1 EXCEPT !.target_.active = FALSE], m.state_, "")]
    ELSE [ret |-> TRUE,
          d |-> Decision("setState", [m1 EXCEPT !.movementStartTime_ = t], direction,
                         IF direction = "MOVING_UP" THEN "Moving up to target"
                         ELSE "Moving down to target")]

\* setTargetHeight leaving the target active when the desk is already there.
setTargetDecisionKeepsActive(m, h, c, t, height_cm) ==
    LET m1 == [m EXCEPT !.target_ =
                   [target_height_cm |-> height_cm,
                    tolerance_mm |-> c.tolerance_,
                    source |-> "MANUAL", source_id |-> 0, active |-> TRUE]]
        direction == determineDirection(m1, h) IN
    IF ~isValidHeight(c, height_cm)
    THEN [ret |-> FALSE, d |-> Decision("none", m, m.state_, "")]
    ELSE IF ~isCalibrated(c)
    THEN [ret |-> FALSE,
          d |-> Decision("none", [m EXCEPT !.lastError_ = MsgNotCalibrated], m.state_, "")]
    ELSE IF m.state_ = "ERROR"
    THEN [ret |-> FALSE, d |-> Decision("none", m, m.state_, "")]
    ELSE IF direction = "IDLE"
    THEN [ret |-> TRUE, d |-> Decision("none", m1, m.state_, "")]
    ELSE [ret |-> TRUE,
          d |-> Decision("setState", [m1 EXCEPT !.movementStartTime_ = t], direction,
                         IF direction = "MOVING_UP" THEN "Moving up to target"
                         ELSE "Moving down to target")]

\* setTargetHeight storing the default tolerance instead of the configured one.
setTargetDecisionDefaultTolerance(m, h, c, t, height_cm) ==
    LET m1 == [m EXCEPT !.target_ =
                   [target_height_cm |-> height_cm,
                    tolerance_mm |-> DEFAULT_TOLERANCE_MM,
                    source |-> "MANUAL", source_id |-> 0, active |-> TRUE]]
        direction == determineDirection(m1, h) IN
    IF ~isValidHeight(c, height_cm)
    THEN [ret |-> FALSE, d |-> Decision("none", m, m.state_, "")]
    ELSE IF ~isCalibrated(c)
    THEN [ret |-> FALSE,
          d |-> Decision("none", [m EXCEPT !.lastError_ = MsgNotCalibrated], m.state_, "")]
    ELSE IF m.state_ = "ERROR"
    THEN [ret |-> FALSE, d |-> Decision("none", m, m.state_, "")]
    ELSE IF direction = "IDLE"
    THEN [ret |-> TRUE,
          d |-> Decision("none", [m1 EXCEPT !.target_.active = FALSE], m.state_, "")]
    ELSE [ret |-> TRUE,
          d |-> Decision("setState", [m1 EXCEPT !.movementStartTime_ = t], direction,
                         IF direction = "MOVING_UP" THEN "Moving up to target"
                         ELSE "Moving down to target")]

\* setTargetHeight() up to its setState call; ret is the value it returns.
setTargetDecision(m, h, c, t, height_cm) ==
    LET m1 == [m EXCEPT !.target_ =
                   [target_height_cm |-> height_cm,
                    tolerance_mm |-> c.tolerance_,
                    source |-> "MANUAL", source_id |-> 0, active |-> TRUE]]
        direction == determineDirection(m1, h) IN
    IF ~isValidHeight(c, height_cm)
    THEN [ret |-> FALSE, d |-> Decision("none", m, m.state_, "")]
    ELSE IF ~isCalibrated(c)
    THEN [ret |-> FALSE,
          d |-> Decision("none", [m EXCEPT !.lastError_ = MsgNotCalibrated], m.state_, "")]
    ELSE IF m.state_ = "ERROR"
    THEN [ret |-> FALSE, d |-> Decision("none", m, m.state_, "")]
    ELSE IF direction = "IDLE"
    THEN [ret |-> TRUE,
          d |-> Decision("none", [m1 EXCEPT !.target_.active = FALSE], m.state_, "")]
    ELSE [ret |-> TRUE,
          d |-> Decision("setState", [m1 EXCEPT !.movementStartTime_ = t], direction,
                         IF direction = "MOVING_UP" THEN "Moving up to target"
                         ELSE "Moving down to target")]

setTargetHeight(m, h, c, t, height_cm) ==
    LET r == setTargetDecision(m, h, c, t, height_cm) IN
    [ret |-> r.ret, m |-> Perform(r.d, t)]

setTargetFromPreset(m, h, c, t, height_cm, preset_slot) ==
    LET r == setTargetHeight(m, h, c, t, height_cm) IN
    IF ~r.ret THEN r
    ELSE [ret |-> TRUE,
          m |-> [r.m EXCEPT !.target_.source = "PRESET",
                            !.target_.source_id = preset_slot]]

\* emergencyStop that stops the motors but keeps the target.
emergencyStopKeepsTarget(m, t) ==
    setState(setMotorPins(m, "IDLE"), "IDLE", "Emergency stop activated", t)

emergencyStop(m, t) ==
    setState([setMotorPins(m, "IDLE") EXCEPT !.target_.active = FALSE],
             "IDLE", "Emergency stop activated", t)

\* clearError leaving the failed target active.
clearErrorKeepsTarget(m, t) ==
    IF m.state_ /= "ERROR" THEN m
    ELSE setState([m EXCEPT !.lastError_ = ""], "IDLE", "Error cleared", t)

clearError(m, t) ==
    IF m.state_ /= "ERROR" THEN m
    ELSE setState([m EXCEPT !.target_.active = FALSE, !.lastError_ = ""],
                  "IDLE", "Error cleared", t)

\* A new operation starts with empty records of pin writes and callbacks.
Fresh(m) == [m EXCEPT !.writes = <<>>, !.notified = <<>>]

----------------------------------------------------------------------------
(* Legacy DistanceController (lib/distance_array_sensor).  Heights and      *)
(* distances are the float values of the source, here whole millimetres;    *)
(* up and down are the levels of control_pin_up_ and control_pin_down_.     *)

NewDistanceController ==
    [target_height_mm_ |-> -1,
     plane_estimated_distance_ |-> -1,
     min_distance_mm_ |-> 100,
     max_distance_mm_ |-> 1000,
     controlling_ |-> FALSE,
     going_down_ |-> FALSE,
     up |-> FALSE,
     down |-> FALSE]

\* DistanceController::setTargetHeight
DistanceController_setTargetHeight(d, target_height_mm) ==
    IF target_height_mm < d.min_distance_mm_ \/ target_height_mm > d.max_distance_mm_
    THEN d
    ELSE [d EXCEPT !.going_down_ = target_height_mm < d.plane_estimated_distance_,
                   !.target_height_mm_ = target_height_mm,
                   !.controlling_ = TRUE]

updateDistanceToPlane(d, distance_mm) ==
    [d EXCEPT !.plane_estimated_distance_ = distance_mm]

updateControlLoop(d) ==
    IF ~d.controlling_ \/ d.plane_estimated_distance_ < 0
    THEN [d EXCEPT !.up = FALSE, !.down = FALSE]
    ELSE IF d.going_down_
    THEN LET d1 == [d EXCEPT !.down = TRUE] IN
         IF d1.plane_estimated_distance_ <= d1.target_height_mm_
         THEN [d1 EXCEPT !.down = FALSE, !.controlling_ = FALSE]
         ELSE d1
    ELSE LET d1 == [d EXCEPT !.up = TRUE] IN
         IF d1.plane_estimated_distance_ >= d1.target_height_mm_
         THEN [d1 EXCEPT !.up = FALSE, !.controlling_ = FALSE]
         ELSE d1

----------------------------------------------------------------------------
(* Initial state: SystemConfig loaded, HeightController::init() and          *)
(* MovementController::init() done.                                          *)

InitCfg(cal) ==
    [calibrationConstant_ |-> cal,
     minHeight_ |-> DEFAULT_MIN_HEIGHT_CM,
     maxHeight_ |-> DEFAULT_MAX_HEIGHT_CM,
     tolerance_ |-> DEFAULT_TOLERANCE_MM,
     stabilizationDuration_ |-> DEFAULT_STABILIZATION_DURATION_MS,
     movementTimeout_ |-> MIN_MOVEMENT_TIMEOUT_MS,
     filterWindowSize_ |-> DEFAULT_FILTER_WINDOW_SIZE,
     preferences_ |-> putValue(putValue(NoPreferences, KEY_CAL_CONST, ToUInt16(cal)),
                               KEY_MOVE_TIMEOUT, MIN_MOVEMENT_TIMEOUT_MS)]

InitHc(sensorOk) ==
    [filter_ |-> NewFilter(DEFAULT_FILTER_WINDOW_SIZE),
     sensorInitialized_ |-> sensorOk,
     currentReading_ |-> [raw_distance_mm |-> 0, filtered_distance_mm |-> 0,
                          calculated_height_cm |-> 0, timestamp_ms |-> 0,
                          validity |-> "INVALID"],
     lastConsensus_ |-> [consensus_distance_mm |-> 0, valid_zone_count |-> 0,
                         outlier_count |-> 0, is_reliable |-> FALSE]]

InitMc(c) ==
    setMotorPins(
        [state_ |-> "IDLE",
         target_ |-> [target_height_cm |-> 0, tolerance_mm |-> c.tolerance_,
                      source |-> "MANUAL", source_id |-> 0, active |-> FALSE],
         lastError_ |-> "",
         movementStartTime_ |-> 0,
         stabilizationStartTime_ |-> 0,
         up |-> FALSE, down |-> FALSE, writes |-> <<>>, notified |-> <<>>],
        "IDLE")

IdleCtx == [pc |-> "idle", op |-> "none", newState |-> "IDLE", message |-> "",
            i |-> 0, next |-> "idle", during |-> FALSE]

Init ==
    /\ now = 0
    /\ \E cal \in CalibrationConstants : cfg = InitCfg(cal)
    /\ \E sensorOk \in BOOLEAN : hc = InitHc(sensorOk)
    /\ mc = InitMc(cfg)
    /\ last = [op |-> "init", ret |-> TRUE, from |-> "IDLE", arg |-> 0]
    /\ frames = 0
    /\ loopc = IdleCtx
    /\ webc = IdleCtx
    /\ filter = NewFilter(DEFAULT_FILTER_WINDOW_SIZE)
    /\ calls = <<>>
    /\ dc = NewDistanceController

NoCall == loopc.pc = "idle" /\ webc.pc = "idle"

----------------------------------------------------------------------------
(* Operations, each running to completion *)

Tick ==
    /\ NoCall
    /\ now < MaxTicks * TickMs
    /\ now' = now + TickMs
    /\ mc' = Fresh(mc)
    /\ last' = [op |-> "tick", ret |-> TRUE, from |-> mc.state_, arg |-> 0]
    /\ UNCHANGED <<cfg, hc, frames, loopc, webc, filter, calls, dc>>

HeightUpdate ==
    /\ NoCall
    /\ \E dataReady \in BOOLEAN, rangingOk \in BOOLEAN, frame \in Frames :
          /\ dataReady => frames < MaxFrames
          /\ (~dataReady \/ ~rangingOk) => frame = UniformFrame(0, 0)
          /\ ~dataReady => rangingOk
          /\ hc' = heightUpdate(hc, cfg, now, dataReady, rangingOk, frame)
          /\ frames' = IF dataReady /\ hc.sensorInitialized_ THEN frames + 1 ELSE frames
    /\ mc' = Fresh(mc)
    /\ last' = [op |-> "heightUpdate", ret |-> TRUE, from |-> mc.state_, arg |-> 0]
    /\ UNCHANGED <<now, cfg, loopc, webc, filter, calls, dc>>

Update ==
    /\ NoCall
    /\ mc' = update(Fresh(mc), hc, cfg, now)
    /\ last' = [op |-> "update", ret |-> TRUE, from |-> mc.state_, arg |-> 0]
    /\ UNCHANGED <<now, cfg, hc, frames, loopc, webc, filter, calls, dc>>

SetTargetHeight ==
    /\ NoCall
    /\ \E h \in TargetHeights :
          LET r == setTargetHeight(Fresh(mc), hc, cfg, now, h) IN
          /\ mc' = r.m
          /\ last' = [op |-> "setTargetHeight", ret |-> r.ret, from |-> mc.state_, arg |-> h]
    /\ UNCHANGED <<now, cfg, hc, frames, loopc, webc, filter, calls, dc>>

SetTargetFromPreset ==
    /\ NoCall
    /\ \E h \in PresetHeights, slot \in PresetSlots :
          LET r == setTargetFromPreset(Fresh(mc), hc, cfg, now, h, slot) IN
          /\ mc' = r.m
          /\ last' = [op |-> "setTargetFromPreset", ret |-> r.ret, from |-> mc.state_, arg |-> h]
    /\ UNCHANGED <<now, cfg, hc, frames, loopc, webc, filter, calls, dc>>

EmergencyStop ==
    /\ NoCall
    /\ mc' = emergencyStop(Fresh(mc), now)
    /\ last' = [op |-> "emergencyStop", ret |-> TRUE, from |-> mc.state_, arg |-> 0]
    /\ UNCHANGED <<now, cfg, hc, frames, loopc, webc, filter, calls, dc>>

ClearError ==
    /\ NoCall
    /\ mc' = clearError(Fresh(mc), now)
    /\ last' = [op |-> "clearError", ret |-> TRUE, from |-> mc.state_, arg |-> 0]
    /\ UNCHANGED <<now, cfg, hc, frames, loopc, webc, filter, calls, dc>>

Next ==
    \/ Tick
    \/ HeightUpdate
    \/ Update
    \/ SetTargetHeight
    \/ SetTargetFromPreset
    \/ EmergencyStop
    \/ ClearError

Spec == Init /\ [][Next]_vars

----------------------------------------------------------------------------
(* Properties of the operations run one at a time (Spec) *)

PinsLow(m) == ~m.up /\ ~m.down
Moving == {"MOVING_UP", "MOVING_DOWN"}
TimedOut == Elapsed(now, mc.movementStartTime_) > cfg.movementTimeout_
SetTargetStep == SetTargetHeight \/ SetTargetFromPreset

\* C1: the UP and DOWN pins are never both HIGH, neither between operations nor
\* after any single digitalWrite inside one, and every write of HIGH to one pin
\* is preceded, in the same setMotorPins call, by a write of LOW to the other.
C1_MutualExclusion ==
    /\ ~(mc.up /\ mc.down)
    /\ \A i \in 1..Len(mc.writes) :
          LET w == mc.writes[i] IN
          /\ ~(w.up /\ w.down)
          /\ w.level =>
                \E j \in 1..(i - 1) :
                    /\ mc.writes[j].call = w.call
                    /\ mc.writes[j].pin /= w.pin
                    /\ ~mc.writes[j].level

\* An update() reversed the direction: DOWN was driven HIGH while UP had been HIGH.
C1_Witness ==
    /\ last.op = "update" /\ last.from = "MOVING_UP"
    /\ mc.state_ = "MOVING_DOWN" /\ mc.down /\ ~mc.up
    /\ Len(mc.writes) = 2

\* C4: emergencyStop() returns with state IDLE, both pins LOW and the target
\* inactive, whatever the state before; and from IDLE with no active target and
\* both pins LOW, every step other than a setTargetHeight / setTargetFromPreset
\* call (update() calls in particular) keeps the state IDLE and both pins LOW.
C4_EmergencyStop ==
    /\ [](last.op = "emergencyStop" =>
            mc.state_ = "IDLE" /\ PinsLow(mc) /\ ~mc.target_.active)
    /\ [][(mc.state_ = "IDLE" /\ ~mc.target_.active /\ PinsLow(mc) /\ ~SetTargetStep)
            => (mc'.state_ = "IDLE" /\ ~mc'.target_.active /\ PinsLow(mc'))]_vars

\* emergencyStop() ran while the desk was moving up: four pin writes, all LOW.
C4_Witness ==
    /\ last.op = "emergencyStop" /\ last.from = "MOVING_UP"
    /\ mc.state_ = "IDLE" /\ ~mc.target_.active /\ PinsLow(mc)
    /\ Len(mc.writes) = 4

\* C5 as stated: update() in a MOVING state with elapsed > movement_timeout_ms
\* ends in ERROR with both pins LOW and the timeout message as last error.
C5_Original ==
    [][(Update /\ mc.state_ \in Moving /\ TimedOut)
        => (mc'.state_ = "ERROR" /\ PinsLow(mc') /\ mc'.lastError_ = MsgTimeout)]_vars

\* C5 amended: update() in a MOVING state with elapsed > movement_timeout_ms ends
\* in ERROR with both pins LOW; the last error is the timeout message when the
\* sensor check passes (reading VALID or younger than 1000 ms) and the
\* sensor-invalid message otherwise.
C5_Timeout ==
    [][(Update /\ mc.state_ \in Moving /\ TimedOut)
        => (/\ mc'.state_ = "ERROR"
            /\ PinsLow(mc')
            /\ mc'.lastError_ = IF checkSensorValidity(hc, now) THEN MsgTimeout
                                ELSE MsgSensor)]_vars

\* update() found the movement timed out with a usable sensor.
C5_Witness ==
    /\ last.op = "update" /\ last.from \in Moving
    /\ mc.state_ = "ERROR" /\ mc.lastError_ = MsgTimeout /\ PinsLow(mc)

\* C6 as stated: update() in a MOVING state with a reading that is not VALID
\* ends in ERROR with both pins LOW and an error message set.
C6_Original ==
    [][(Update /\ mc.state_ \in Moving /\ ~isValid(hc))
        => (mc'.state_ = "ERROR" /\ PinsLow(mc') /\ mc'.lastError_ /= "")]_vars

\* C8: update() in MOVING_UP, MOVING_DOWN or STABILIZING (entering STABILIZING,
\* staying, resuming a movement) leaves the movement-start timestamp unchanged.
C8_TimerKept ==
    [][(Update /\ mc.state_ \in Moving \cup {"STABILIZING"})
        => mc'.movementStartTime_ = mc.movementStartTime_]_vars

\* A movement that stabilized, drifted and resumed timed out although less than
\* the timeout had passed since it entered STABILIZING.
C8_Witness ==
    /\ mc.state_ = "ERROR" /\ mc.lastError_ = MsgTimeout
    /\ mc.stabilizationStartTime_ > mc.movementStartTime_
    /\ Elapsed(now, mc.stabilizationStartTime_) <= cfg.movementTimeout_
    /\ TimedOut

Rejected(h) == ~isValidHeight(cfg, h) \/ ~isCalibrated(cfg) \/ mc.state_ = "ERROR"

\* C10 as stated: a setTargetHeight(h) with h out of range, the system
\* uncalibrated or the state ERROR returns false and changes nothing: state,
\* target, pins, movement-start time, last error.
C10_Original ==
    [][(SetTargetHeight /\ last'.op = "setTargetHeight" /\ Rejected(last'.arg))
        => (/\ ~last'.ret
            /\ mc'.state_ = mc.state_ /\ mc'.target_ = mc.target_
            /\ mc'.up = mc.up /\ mc'.down = mc.down /\ mc'.writes = <<>>
            /\ mc'.movementStartTime_ = mc.movementStartTime_
            /\ mc'.lastError_ = mc.lastError_)]_vars

\* C10 amended: such a call returns false and changes neither state, target,
\* pins nor movement-start time; the last error is unchanged too, except that a
\* call refused because the system is uncalibrated (h being in range) sets it to
\* "System not calibrated".
C10_Rejected ==
    [][(SetTargetHeight /\ last'.op = "setTargetHeight" /\ Rejected(last'.arg))
        => (/\ ~last'.ret
            /\ mc'.state_ = mc.state_ /\ mc'.target_ = mc.target_
            /\ mc'.up = mc.up /\ mc'.down = mc.down /\ mc'.writes = <<>>
            /\ mc'.movementStartTime_ = mc.movementStartTime_
            /\ mc'.lastError_ =
                  IF isValidHeight(cfg, last'.arg) /\ ~isCalibrated(cfg)
                  THEN MsgNotCalibrated ELSE mc.lastError_)]_vars

\* A target in range was refused on an uncalibrated system.
C10_Witness ==
    /\ last.op = "setTargetHeight" /\ last.arg = 101 /\ ~last.ret
    /\ ~isCalibrated(cfg) /\ mc.lastError_ = MsgNotCalibrated

----------------------------------------------------------------------------
(* The control loop keeps running: time advances and update() keeps being   *)
(* called; targets are accepted only while the run still has room for a     *)
(* whole timeout period after them.                                         *)

TargetsOpen == now + cfg.movementTimeout_ < MaxTicks * TickMs

NextLive ==
    \/ Tick
    \/ HeightUpdate
    \/ Update
    \/ (TargetsOpen /\ SetTargetHeight)

LiveSpec == Init /\ [][NextLive]_vars /\ WF_vars(Tick) /\ WF_vars(Update)

\* C7: an update() that runs in a MOVING state after movement_timeout_ms have
\* elapsed since the movement start leaves the MOVING states with both pins LOW,
\* and with time advancing and update() being called a MOVING state always
\* leads to a state that is not MOVING with both pins LOW.
C7_MovementBounded ==
    /\ [][(Update /\ mc.state_ \in Moving /\ TimedOut)
            => (mc'.state_ \notin Moving /\ PinsLow(mc'))]_vars
    /\ (mc.state_ \in Moving) ~> (mc.state_ \notin Moving /\ PinsLow(mc))

\* A movement that no reading ever stopped was ended by the timeout.
C7_Witness ==
    /\ last.op = "update" /\ last.from \in Moving
    /\ mc.state_ = "ERROR" /\ PinsLow(mc)
    /\ TimedOut /\ frames = 0

----------------------------------------------------------------------------
(* The two execution contexts.  update() runs in the control loop (loopc),  *)
(* setTargetHeight() and emergencyStop() run in the web server's request    *)
(* handlers (webc); MovementController takes no lock and masks no           *)
(* interrupt, so the statements of the two calls interleave.  A call's      *)
(* reads and own-field assignments up to its setState / setMotorPins call   *)
(* are one step; inside setState the state_ assignment, each digitalWrite   *)
(* and the tail are steps of their own.  pc is the call's position:         *)
(*   "enter"  at the state_ /= newState test of setState                    *)
(*   "pins"   before the i-th digitalWrite of setMotorPins(newState)        *)
(*   "clear"  at target_.active = false of emergencyStop                    *)
(*   "tail"   after setMotorPins inside setState                            *)
(* The per-operation records mc.writes and mc.notified are not kept here.   *)

Returned(c) == [IdleCtx EXCEPT !.op = c.op, !.during = c.during]

\* The context after the first part of a call that decided d.
BeginCall(d, op) ==
    CASE d.kind = "setState" ->
            [IdleCtx EXCEPT !.pc = "enter", !.op = op, !.newState = d.newState,
                            !.message = d.message, !.next = "tail"]
      [] d.kind = "setMotorPins" ->
            [IdleCtx EXCEPT !.pc = "pins", !.op = op, !.newState = d.newState,
                            !.i = 1, !.next = "idle"]
      [] OTHER -> [IdleCtx EXCEPT !.op = op]

\* One statement of setState / setMotorPins / emergencyStop in context c.
CallStep(m, c, t) ==
    CASE c.pc = "enter" ->
            IF m.state_ /= c.newState
            THEN [m |-> [m EXCEPT !.state_ = c.newState],
                  c |-> [c EXCEPT !.pc = "pins", !.i = 1, !.next = "tail"]]
            ELSE [m |-> m, c |-> Returned(c)]
      [] c.pc = "pins" ->
            LET w == MotorPinWrites(c.newState)[c.i] IN
            [m |-> digitalWrite(m, 1, w[1], w[2]),
             c |-> IF c.i = 1 THEN [c EXCEPT !.i = 2]
                   ELSE IF c.next = "idle" THEN Returned(c)
                   ELSE [c EXCEPT !.pc = c.next, !.i = 0]]
      [] c.pc = "clear" ->
            [m |-> [m EXCEPT !.target_.active = FALSE],
             c |-> [c EXCEPT !.pc = "enter", !.message = "Emergency stop activated",
                             !.next = "tail"]]
      [] OTHER ->
            [m |-> setStateTail(m, c.newState, c.message, t), c |-> Returned(c)]

LoopUpdateBegin ==
    /\ loopc.pc = "idle"
    /\ LET d == updateDecision(Fresh(mc), hc, cfg, now) IN
          /\ mc' = d.m
          /\ loopc' = BeginCall(d, "update")
    /\ last' = [op |-> "update", ret |-> TRUE, from |-> mc.state_, arg |-> 0]
    /\ UNCHANGED <<now, cfg, hc, frames, webc, filter, calls, dc>>

LoopStep ==
    /\ loopc.pc /= "idle"
    /\ LET r == CallStep(mc, loopc, now) IN
          /\ mc' = Fresh(r.m)
          /\ loopc' = r.c
    /\ UNCHANGED <<now, cfg, hc, last, frames, webc, filter, calls, dc>>

WebSetTargetBegin ==
    /\ webc.pc = "idle"
    /\ \E h \in ConcTargetHeights :
          LET r == setTargetDecision(Fresh(mc), hc, cfg, now, h) IN
          /\ mc' = r.d.m
          /\ webc' = BeginCall(r.d, "setTargetHeight")
          /\ last' = [op |-> "setTargetHeight", ret |-> r.ret, from |-> mc.state_,
                      arg |-> h]
    /\ UNCHANGED <<now, cfg, hc, frames, loopc, filter, calls, dc>>

WebStopBegin ==
    /\ webc.pc = "idle"
    /\ mc' = Fresh(mc)
    /\ webc' = [IdleCtx EXCEPT !.pc = "pins", !.op = "emergencyStop", !.i = 1,
                               !.next = "clear", !.during = (loopc.pc /= "idle")]
    /\ last' = [op |-> "emergencyStop", ret |-> TRUE, from |-> mc.state_, arg |-> 0]
    /\ UNCHANGED <<now, cfg, hc, frames, loopc, filter, calls, dc>>

WebStep ==
    /\ webc.pc /= "idle"
    /\ LET r == CallStep(mc, webc, now) IN
          /\ mc' = Fresh(r.m)
          /\ webc' = r.c
    /\ UNCHANGED <<now, cfg, hc, last, frames, loopc, filter, calls, dc>>

\* Requests reach the web handler during the first control-loop period of the run.
RequestsOpen == now < TickMs

NextConc ==
    \/ Tick
    \/ HeightUpdate
    \/ LoopUpdateBegin
    \/ LoopStep
    \/ (RequestsOpen /\ WebSetTargetBegin)
    \/ (RequestsOpen /\ WebStopBegin)
    \/ WebStep

ConcSpec == Init /\ [][NextConc]_vars

\* C2: with setTargetHeight() or emergencyStop() running in the web context
\* while update() runs in the control loop, their digitalWrite calls
\* interleaved in any order, the UP pin and the DOWN pin are never both HIGH.
C2_NeverBothHigh == ~(mc.up /\ mc.down)

\* C3: when emergencyStop() was called while the control loop was inside
\* update(), then once both calls have returned the state is IDLE, both pins
\* are LOW and the target is inactive.
C3_StopWins ==
    (NoCall /\ last.op = "emergencyStop" /\ webc.during)
        => (mc.state_ = "IDLE" /\ PinsLow(mc) /\ ~mc.target_.active)

----------------------------------------------------------------------------
(* Transitions of the state machine (Spec) *)

\* update() gets past its sensor check and its timeout check.
Usable == checkSensorValidity(hc, now) /\ ~TimedOut

InTolerance(target_cm, tolerance_mm) ==
    Abs(target_cm - getCurrentHeight(hc)) * 10 <= tolerance_mm

NoHighWrite(m) == \A i \in 1..Len(m.writes) : ~m.writes[i].level

\* C11: setTargetHeight(h) in IDLE on a calibrated system, h in range and
\* |h - current height| * 10 <= tolerance_mm, returns true, stays IDLE with the
\* target inactive and writes no pin HIGH; an update() in IDLE without an
\* active target stays IDLE and writes no pin HIGH either.
C11_AlreadyAtTarget ==
    /\ [][(/\ SetTargetHeight
           /\ mc.state_ = "IDLE" /\ isCalibrated(cfg) /\ isValidHeight(cfg, last'.arg)
           /\ InTolerance(last'.arg, cfg.tolerance_))
            => (/\ last'.ret
                /\ mc'.state_ = "IDLE" /\ ~mc'.target_.active
                /\ NoHighWrite(mc') /\ PinsLow(mc'))]_vars
    /\ [][(Update /\ mc.state_ = "IDLE" /\ ~mc.target_.active)
            => (mc'.state_ = "IDLE" /\ NoHighWrite(mc') /\ PinsLow(mc'))]_vars

\* A target exactly tolerance_mm above the desk was accepted without a movement.
C11_Witness ==
    /\ last.op = "setTargetHeight" /\ last.from = "IDLE" /\ last.arg = 101 /\ last.ret
    /\ getCurrentHeight(hc) = 100 /\ isValid(hc)
    /\ mc.state_ = "IDLE" /\ ~mc.target_.active /\ mc.target_.target_height_cm = 101

\* C12: a target accepted in IDLE outside tolerance puts the controller in
\* MOVING_UP with only the UP pin HIGH when it is above the current height and
\* in MOVING_DOWN with only the DOWN pin HIGH when it is below; and whatever
\* operation enters MOVING_UP (MOVING_DOWN) does so with the target above
\* (below) the current height.
C12_Direction ==
    /\ [][(/\ SetTargetStep /\ mc.state_ = "IDLE" /\ last'.ret
           /\ ~InTolerance(last'.arg, cfg.tolerance_))
            => IF last'.arg > getCurrentHeight(hc)
               THEN mc'.state_ = "MOVING_UP" /\ mc'.up /\ ~mc'.down
               ELSE mc'.state_ = "MOVING_DOWN" /\ mc'.down /\ ~mc'.up]_vars
    /\ [][(mc'.state_ = "MOVING_UP" /\ mc.state_ /= "MOVING_UP")
            => mc'.target_.target_height_cm > getCurrentHeight(hc')]_vars
    /\ [][(mc'.state_ = "MOVING_DOWN" /\ mc.state_ /= "MOVING_DOWN")
            => mc'.target_.target_height_cm < getCurrentHeight(hc')]_vars

\* A target below the measured height was accepted in IDLE: DOWN alone is HIGH.
C12_Witness ==
    /\ last.op = "setTargetHeight" /\ last.from = "IDLE" /\ last.ret
    /\ isValid(hc) /\ last.arg < getCurrentHeight(hc)
    /\ mc.state_ = "MOVING_DOWN" /\ mc.down /\ ~mc.up

\* C13: update() in MOVING_UP or MOVING_DOWN with a usable sensor reading, no
\* timeout and |target_cm - current_cm| * 10 <= the target's tolerance_mm
\* (equality included) ends in STABILIZING with both pins LOW and the
\* stabilization timer set to the current time.
C13_Original ==
    [][(/\ Update /\ mc.state_ \in Moving /\ Usable
        /\ InTolerance(mc.target_.target_height_cm, mc.target_.tolerance_mm))
        => (/\ mc'.state_ = "STABILIZING" /\ PinsLow(mc')
            /\ mc'.stabilizationStartTime_ = now)]_vars

StableLongEnough ==
    Elapsed(now, mc.stabilizationStartTime_) >= cfg.stabilizationDuration_

\* C14: update() takes STABILIZING to IDLE exactly when the height is within
\* tolerance and at least stabilization_duration_ms have elapsed since the most
\* recent entry into STABILIZING; every entry into STABILIZING sets the timer
\* to the current time, and on completion the target is inactive.
C14_Original ==
    /\ [][(/\ Update /\ mc.state_ = "STABILIZING" /\ StableLongEnough
           /\ InTolerance(mc.target_.target_height_cm, mc.target_.tolerance_mm))
            => (mc'.state_ = "IDLE" /\ ~mc'.target_.active /\ PinsLow(mc'))]_vars
    /\ [][(Update /\ mc.state_ = "STABILIZING" /\ mc'.state_ = "IDLE")
            => (/\ StableLongEnough
                /\ InTolerance(mc.target_.target_height_cm, mc.target_.tolerance_mm)
                /\ ~mc'.target_.active)]_vars
    /\ [][IF mc'.state_ = "STABILIZING" /\ mc.state_ /= "STABILIZING"
          THEN mc'.stabilizationStartTime_ = now
          ELSE mc.state_ = "STABILIZING" =>
                  mc'.stabilizationStartTime_ = mc.stabilizationStartTime_]_vars

\* C15: clearError() in ERROR ends in IDLE with the target inactive and the last
\* error empty; in any other state it changes neither state, target, pins nor
\* last error, and writes no pin.
C15_ClearError ==
    /\ [][(ClearError /\ mc.state_ = "ERROR")
            => (/\ mc'.state_ = "IDLE" /\ ~mc'.target_.active
                /\ mc'.lastError_ = "" /\ PinsLow(mc'))]_vars
    /\ [][(ClearError /\ mc.state_ /= "ERROR")
            => (/\ mc'.state_ = mc.state_ /\ mc'.target_ = mc.target_
                /\ mc'.up = mc.up /\ mc'.down = mc.down /\ mc'.writes = <<>>
                /\ mc'.lastError_ = mc.lastError_
                /\ mc'.movementStartTime_ = mc.movementStartTime_
                /\ mc'.stabilizationStartTime_ = mc.stabilizationStartTime_)]_vars

\* clearError() ended an ERROR: IDLE, the target kept but inactive, one callback.
C15_Witness ==
    /\ last.op = "clearError" /\ last.from = "ERROR"
    /\ mc.state_ = "IDLE" /\ ~mc.target_.active /\ mc.lastError_ = ""
    /\ mc.target_.target_height_cm = 101 /\ isValid(hc)
    /\ Len(mc.notified) = 1 /\ mc.notified[1].message = "Error cleared"

\* C16: whenever no MovementController operation is in progress, the UP pin is
\* HIGH exactly when the state is MOVING_UP and the DOWN pin is HIGH exactly
\* when the state is MOVING_DOWN (so both are LOW in IDLE, STABILIZING, ERROR).
C16_PinsFollowState ==
    /\ mc.up <=> (mc.state_ = "MOVING_UP")
    /\ mc.down <=> (mc.state_ = "MOVING_DOWN")

\* A downward movement was stopped by an update(): the DOWN pin went LOW.
C16_Witness ==
    /\ last.op = "update" /\ last.from = "MOVING_DOWN"
    /\ mc.state_ \in {"STABILIZING", "ERROR"} /\ ~mc.up /\ ~mc.down
    /\ mc.writes = << [call |-> 1, pin |-> "UP", level |-> FALSE, up |-> FALSE, down |-> TRUE],
                      [call |-> 1, pin |-> "DOWN", level |-> FALSE, up |-> FALSE, down |-> FALSE] >>

\* C17: a step that changes the movement state invokes the status callback
\* exactly once, with the new state and a reason message, when state_ and the
\* pins already have their new values; a step that leaves the movement state
\* unchanged does not invoke it.
C17_Callback ==
    [][IF mc'.state_ /= mc.state_
       THEN /\ Len(mc'.notified) = 1
            /\ mc'.notified[1].state = mc'.state_
            /\ mc'.notified[1].message /= ""
            /\ mc'.notified[1].at = [state_ |-> mc'.state_, up |-> mc'.up,
                                     down |-> mc'.down]
       ELSE mc'.notified = <<>>]_vars

\* update() reversed the direction and reported it once, DOWN already HIGH.
C17_Witness ==
    /\ last.op = "update" /\ last.from = "MOVING_UP" /\ mc.state_ = "MOVING_DOWN"
    /\ mc.notified = << [state |-> "MOVING_DOWN", message |-> "Direction changed",
                         at |-> [state_ |-> "MOVING_DOWN", up |-> FALSE, down |-> TRUE]] >>

----------------------------------------------------------------------------
(* HeightController::update() polled while the reading ages (SensorSpec):  *)
(* millis() is observed at instants that meet READING_STALE_TIMEOUT_MS     *)
(* exactly.                                                                *)

\* Values of millis() (ms) at which update() is polled.
PollTimes == {0, 1, READING_STALE_TIMEOUT_MS, READING_STALE_TIMEOUT_MS + 1}

Elapse ==
    /\ NoCall
    /\ \E t \in PollTimes :
          /\ t > now
          /\ now' = t
    /\ mc' = Fresh(mc)
    /\ last' = [op |-> "tick", ret |-> TRUE, from |-> mc.state_, arg |-> 0]
    /\ UNCHANGED <<cfg, hc, frames, loopc, webc, filter, calls, dc>>

NextSensor ==
    \/ Elapse
    \/ HeightUpdate

SensorSpec == Init /\ [][NextSensor]_vars

\* update() of an initialised sensor that gets a frame without reliable consensus.
UnreliableFrameStep ==
    /\ hc.sensorInitialized_ /\ frames' = frames + 1
    /\ \E frame \in Frames :
          /\ ~computeMultiZoneConsensus(frame).is_reliable
          /\ hc' = heightUpdate(hc, cfg, now, TRUE, TRUE, frame)

\* update() of an initialised sensor that has no new frame.
NoFrameStep ==
    /\ hc.sensorInitialized_ /\ frames' = frames /\ now' = now
    /\ last'.op = "heightUpdate"
    /\ hc' = heightUpdate(hc, cfg, now, FALSE, TRUE, UniformFrame(0, 0))

\* C18: an update() that processes a frame whose consensus is unreliable makes
\* the reading INVALID and leaves the filter (samples, head, count), the
\* filtered distance and the calculated height as they were.
C18_UnreliableFrame ==
    [][UnreliableFrameStep =>
          /\ hc'.currentReading_.validity = "INVALID"
          /\ hc'.filter_ = hc.filter_
          /\ hc'.currentReading_.filtered_distance_mm
                = hc.currentReading_.filtered_distance_mm
          /\ hc'.currentReading_.calculated_height_cm
                = hc.currentReading_.calculated_height_cm]_vars

\* A valid reading of 800 mm taken at 0 ms, then an unreliable frame at 1000 ms.
C18_Witness ==
    /\ last.op = "heightUpdate" /\ frames = 2 /\ now = 1000
    /\ hc.currentReading_.validity = "INVALID"
    /\ hc.currentReading_.timestamp_ms = 1000
    /\ ~hc.lastConsensus_.is_reliable
    /\ hc.filter_.sampleCount_ = 1
    /\ hc.currentReading_.filtered_distance_mm = 800

\* C19: an update() that finds no new frame sets the validity to STALE when
\* the reading is older than READING_STALE_TIMEOUT_MS and changes nothing else;
\* with an age of at most READING_STALE_TIMEOUT_MS it changes nothing at all.
C19_NoNewFrame ==
    [][NoFrameStep =>
          IF getReadingAge(hc, now) > READING_STALE_TIMEOUT_MS
          THEN hc' = [hc EXCEPT !.currentReading_.validity = "STALE"]
          ELSE hc' = hc]_vars

\* A valid reading exactly READING_STALE_TIMEOUT_MS old is polled and stays valid.
C19_Witness ==
    /\ last.op = "heightUpdate" /\ frames = 1
    /\ getReadingAge(hc, now) = READING_STALE_TIMEOUT_MS
    /\ hc.currentReading_.validity = "VALID"

\* A valid reading one millisecond older than that is polled and becomes STALE.
C19_WitnessStale ==
    /\ last.op = "heightUpdate" /\ frames = 1
    /\ getReadingAge(hc, now) = READING_STALE_TIMEOUT_MS + 1
    /\ hc.currentReading_.validity = "STALE"
    /\ hc.currentReading_.filtered_distance_mm = 800

----------------------------------------------------------------------------
(* MovingAverageFilter driven by arbitrary addSample()/reset() sequences    *)
(* (FilterSpec)                                                             *)

\* Window sizes the filter is constructed with.
WindowSizes == {3, 5}
\* Samples (uint16) passed to addSample(); three of the largest exceed 16 bits
\* when summed.
Samples == {100, 201, 65535}

InitFilter ==
    /\ now = 0
    /\ cfg = InitCfg(0)
    /\ hc = InitHc(TRUE)
    /\ mc = InitMc(cfg)
    /\ last = [op |-> "init", ret |-> TRUE, from |-> "IDLE", arg |-> 0]
    /\ frames = 0
    /\ loopc = IdleCtx
    /\ webc = IdleCtx
    /\ \E w \in WindowSizes : filter = NewFilter(w)
    /\ calls = <<>>
    /\ dc = NewDistanceController

AddSample ==
    /\ Len(calls) < MaxCalls
    /\ \E s \in Samples :
          /\ filter' = addSample(filter, s)
          /\ calls' = Append(calls, [op |-> "addSample", sample |-> s])
    /\ UNCHANGED <<now, cfg, hc, mc, last, frames, loopc, webc, dc>>

Reset ==
    /\ Len(calls) < MaxCalls
    /\ filter' = resetFilterState(filter)
    /\ calls' = Append(calls, [op |-> "reset", sample |-> 0])
    /\ UNCHANGED <<now, cfg, hc, mc, last, frames, loopc, webc, dc>>

NextFilter ==
    \/ AddSample
    \/ Reset

FilterSpec == InitFilter /\ [][NextFilter]_vars

\* Index of the first call after the last reset() (1 when there was none).
FirstSinceReset ==
    LET resets == {i \in 1..Len(calls) : calls[i].op = "reset"} IN
    IF resets = {} THEN 1
    ELSE (CHOOSE i \in resets : \A j \in resets : j <= i) + 1

\* n: samples added since construction or the last reset().
AddedSinceReset == Len(calls) - FirstSinceReset + 1

RECURSIVE SumCalls(_, _)
SumCalls(from, to) ==
    IF from > to THEN 0 ELSE calls[to].sample + SumCalls(from, to - 1)

\* Truncating integer mean of the k most recent samples.
MeanOfRecent(k) == SumCalls(Len(calls) - k + 1, Len(calls)) \div k

\* C20: after any sequence of addSample() and reset() calls, getAverage() is
\* the truncating integer mean of the min(n, windowSize_) samples added last,
\* n counting the samples added since construction or the last reset(), and
\* is 0 when n = 0.
C20_Average ==
    LET n == AddedSinceReset
        k == IF n < filter.windowSize_ THEN n ELSE filter.windowSize_ IN
    getAverage(filter) = IF n = 0 THEN 0 ELSE MeanOfRecent(k)

\* A window of 3 that was filled, reset and then took four samples, the
\* oldest of which has been overwritten; the mean of the last three truncates.
C20_Witness ==
    /\ filter.windowSize_ = 3 /\ Len(calls) = 6
    /\ calls[1].sample = 65535 /\ calls[2].op = "reset"
    /\ AddedSinceReset = 4
    /\ calls[3].sample = 65535
    /\ getAverage(filter) = 167

----------------------------------------------------------------------------
(* MovingAverageFilter constructed with an arbitrary window size request    *)
(* (WindowSpec); last.arg keeps the size passed to the constructor.         *)

\* Window sizes (uint8) passed to the constructor.
RequestedSizes == {0, 2, 3, 4, 10, 11, 255}

InitWindow ==
    /\ now = 0
    /\ cfg = InitCfg(0)
    /\ hc = InitHc(TRUE)
    /\ mc = InitMc(cfg)
    /\ frames = 0
    /\ loopc = IdleCtx
    /\ webc = IdleCtx
    /\ \E w \in RequestedSizes :
          /\ filter = NewFilter(w)
          /\ last = [op |-> "MovingAverageFilter", ret |-> TRUE, from |-> "IDLE",
                     arg |-> w]
    /\ calls = <<>>
    /\ dc = NewDistanceController

WindowSpec == InitWindow /\ [][NextFilter]_vars

\* size clamped into [3, 10]
ClampedInto3To10(size) == IF size < 3 THEN 3 ELSE IF size > 10 THEN 10 ELSE size

\* C21: for every uint8 request the constructor's window size is the request
\* clamped into [3, 10], and after any sequence of addSample() and reset()
\* calls the window size is still that value and the sample count lies in
\* [0, window size].
C21_WindowAndCount ==
    /\ \A size \in 0..255 : NewFilter(size).windowSize_ = ClampedInto3To10(size)
    /\ filter.windowSize_ = ClampedInto3To10(last.arg)
    /\ filter.sampleCount_ >= 0
    /\ filter.sampleCount_ <= filter.windowSize_

\* A request of 0 gave a window of 3, which holds 3 samples after 5 were added.
C21_Witness ==
    /\ last.arg = 0 /\ filter.windowSize_ = 3
    /\ Len(calls) = 5 /\ \A i \in 1..5 : calls[i].op = "addSample"
    /\ filter.sampleCount_ = 3

----------------------------------------------------------------------------
(* The spatial filtering functions of HeightController called on their own  *)
(* (SpatialSpec): one call per behaviour, last keeps its arguments and its  *)
(* results.                                                                 *)

\* Distances (mm) passed to computeMedian in every order and multiplicity.
MedianValues == {800, 840, 850, 860}
\* Sixteen distances (mm), passed to computeMedian in prefixes and rotations.
SixteenDistances ==
    <<860, 800, 850, 840, 800, 870, 810, 850, 820, 830, 880, 840, 890, 805, 815, 825>>
Rotated(s, r) == [i \in 1..Len(s) |-> s[((i - 1 + r) % Len(s)) + 1]]
MedianInputs ==
    UNION {[1..n -> MedianValues] : n \in 0..MaxMedianLen}
    \cup {Rotated(SubSeq(SixteenDistances, 1, n), r) :
             n \in 1..MULTI_ZONE_TOTAL_ZONES, r \in 0..MULTI_ZONE_TOTAL_ZONES - 1}

\* Medians and distances (mm) passed to filterOutliers.
OutlierMedians == {20, 850}
OutlierValues == {0, 50, 51, 819, 820, 850, 880, 881}
OutlierInputs == UNION {[1..n -> OutlierValues] : n \in 0..MaxOutlierLen}

\* What one zone of a frame reports: target status and signed distance (mm).
ZoneReports ==
    {[status |-> 5, distance |-> 10],   [status |-> 6, distance |-> 4000],
     [status |-> 9, distance |-> 3970], [status |-> 9, distance |-> 3969],
     [status |-> 5, distance |-> 9],    [status |-> 5, distance |-> 4001],
     [status |-> 4, distance |-> 3970]}
\* A frame whose first zones report zs and whose other zones report nothing.
FrameOf(zs) ==
    [z \in 1..MULTI_ZONE_TOTAL_ZONES |->
        IF z <= Len(zs) THEN zs[z] ELSE [status |-> 0, distance |-> 0]]
ConsensusFrames ==
    {FrameOf(zs) : zs \in UNION {[1..n -> ZoneReports] : n \in 0..MaxReportingZones}}
    \cup {UniformFrame(5, -800), UniformFrame(255, 800), UniformFrame(10, 800),
          [z \in 1..MULTI_ZONE_TOTAL_ZONES |->
              [status |-> 5, distance |-> SixteenDistances[z]]]}

InitCall ==
    /\ now = 0
    /\ cfg = InitCfg(0)
    /\ hc = InitHc(TRUE)
    /\ mc = InitMc(cfg)
    /\ last = [op |-> "init", ret |-> TRUE, from |-> "IDLE", arg |-> 0]
    /\ frames = 0
    /\ loopc = IdleCtx
    /\ webc = IdleCtx
    /\ filter = NewFilter(DEFAULT_FILTER_WINDOW_SIZE)
    /\ calls = <<>>
    /\ dc = NewDistanceController

ComputeMedian ==
    /\ last.op = "init"
    /\ \E values \in MedianInputs :
          last' = [op |-> "computeMedian", ret |-> computeMedian(values),
                   from |-> "IDLE", arg |-> values]
    /\ UNCHANGED <<now, cfg, hc, mc, frames, loopc, webc, filter, calls, dc>>

FilterOutliers ==
    /\ last.op = "init"
    /\ \E values \in OutlierInputs, median \in OutlierMedians :
          last' = [op |-> "filterOutliers",
                   ret |-> [keep_flags |-> filterOutliers(values, median),
                            kept_count |-> filterOutliersKeptCount(values, median)],
                   from |-> "IDLE",
                   arg |-> [values |-> values, median |-> median]]
    /\ UNCHANGED <<now, cfg, hc, mc, frames, loopc, webc, filter, calls, dc>>

ComputeMultiZoneConsensus ==
    /\ last.op = "init"
    /\ \E frame \in ConsensusFrames :
          last' = [op |-> "computeMultiZoneConsensus",
                   ret |-> computeMultiZoneConsensus(frame),
                   from |-> "IDLE", arg |-> frame]
    /\ UNCHANGED <<now, cfg, hc, mc, frames, loopc, webc, filter, calls, dc>>

NextSpatial ==
    \/ ComputeMedian
    \/ FilterOutliers
    \/ ComputeMultiZoneConsensus

SpatialSpec == InitCall /\ [][NextSpatial]_vars

\* The places of zones whose status is 5, 6 or 9 and whose distance is in 10..4000.
ValidZones(frame) ==
    {z \in DOMAIN frame : /\ frame[z].status \in {5, 6, 9}
                          /\ frame[z].distance >= 10
                          /\ frame[z].distance <= 4000}

\* A place, among the places ix of d, of the lower median of the values there:
\* the value of rank (n + 1) \div 2 in ascending order.
LowerMedianAt(d, ix) ==
    LET k == (Cardinality(ix) + 1) \div 2 IN
    CHOOSE z \in ix : /\ Cardinality({y \in ix : d[y] < d[z]}) < k
                      /\ Cardinality({y \in ix : d[y] <= d[z]}) >= k

RECURSIVE SumAt(_, _)
SumAt(d, ix) ==
    IF ix = {} THEN 0
    ELSE LET z == CHOOSE y \in ix : TRUE IN d[z] + SumAt(d, ix \ {z})

\* C22: computeMultiZoneConsensus reports a frame reliable exactly when at
\* least 4 of its zones have a status in {5, 6, 9} and a distance in 10..4000;
\* with fewer the consensus distance is 0, and otherwise it is the truncating
\* integer mean of the valid zones within 30 mm of the (lower) median of the
\* valid zones.
C22_Consensus ==
    last.op = "computeMultiZoneConsensus" =>
        LET frame == last.arg
            d == [z \in DOMAIN frame |-> frame[z].distance]
            valid == ValidZones(frame)
            median == d[LowerMedianAt(d, valid)]
            near == {z \in valid : Abs(d[z] - median) <= 30} IN
        /\ last.ret.is_reliable <=> Cardinality(valid) >= 4
        /\ Cardinality(valid) < 4 => last.ret.consensus_distance_mm = 0
        /\ Cardinality(valid) >= 4 =>
              last.ret.consensus_distance_mm = SumAt(d, near) \div Cardinality(near)

\* Exactly four valid zones at 4000, 4000, 3970 and 3969 mm and one at 4001 mm:
\* the median is 3970, 3969 is kept, and the mean 3984.75 truncates.
C22_Witness ==
    /\ last.op = "computeMultiZoneConsensus"
    /\ last.arg[1] = [status |-> 6, distance |-> 4000]
    /\ last.arg[2] = [status |-> 5, distance |-> 4001]
    /\ last.arg[3] = [status |-> 9, distance |-> 3970]
    /\ last.arg[4] = [status |-> 9, distance |-> 3969]
    /\ last.arg[5] = [status |-> 6, distance |-> 4000]
    /\ last.ret.is_reliable
    /\ last.ret.valid_zone_count = 4
    /\ last.ret.consensus_distance_mm = 3984

\* C23: computeMedian returns 0 for no values and otherwise the value of rank
\* (n + 1) \div 2 in ascending order: the middle one for an odd count, the
\* lower of the two central ones for an even count.
C23_Median ==
    last.op = "computeMedian" =>
        LET values == last.arg
            n == Len(values) IN
        /\ n = 0 => last.ret = 0
        /\ n > 0 => last.ret = values[LowerMedianAt(values, 1..n)]

\* 860, 800, 850, 840 has the central values 840 and 850; the result is 840.
C23_Witness ==
    /\ last.op = "computeMedian"
    /\ last.arg = <<860, 800, 850, 840>>
    /\ last.ret = 840

\* C24: filterOutliers keeps a value exactly when it differs from the median
\* by at most 30 mm, in either direction, and kept_count is the number of
\* values kept.
C24_Outliers ==
    last.op = "filterOutliers" =>
        LET values == last.arg.values
            median == last.arg.median
            kept == {i \in 1..Len(values) : last.ret.keep_flags[i]} IN
        /\ \A i \in 1..Len(values) :
              last.ret.keep_flags[i] <=>
                  (values[i] - median <= 30 /\ median - values[i] <= 30)
        /\ last.ret.kept_count = Cardinality(kept)

\* Median 850: 820 and 880 (30 away) are kept, 819 (31 away) is rejected.
C24_Witness ==
    /\ last.op = "filterOutliers"
    /\ last.arg = [values |-> <<819, 820, 880>>, median |-> 850]
    /\ last.ret = [keep_flags |-> <<FALSE, TRUE, TRUE>>, kept_count |-> 2]

\* Median 850: 881 (31 above) is rejected as well.
C24_WitnessAbove ==
    /\ last.op = "filterOutliers"
    /\ last.arg = [values |-> <<881, 850>>, median |-> 850]
    /\ last.ret = [keep_flags |-> <<FALSE, TRUE>>, kept_count |-> 1]

\* C37: when the median passed to filterOutliers is the (lower) median of the
\* values passed with it, the median element is kept and kept_count >= 1; and
\* for every frame with at least one valid zone computeMultiZoneConsensus
\* reports outlier_count < valid_zone_count.
C37_MedianKept ==
    /\ last.op = "filterOutliers" /\ Len(last.arg.values) >= 1 =>
          LET values == last.arg.values
              at == LowerMedianAt(values, 1..Len(values)) IN
          last.arg.median = values[at] =>
              /\ last.ret.keep_flags[at]
              /\ last.ret.kept_count >= 1
    /\ last.op = "computeMultiZoneConsensus" /\ ValidZones(last.arg) /= {} =>
          /\ last.ret.valid_zone_count = Cardinality(ValidZones(last.arg))
          /\ last.ret.outlier_count < last.ret.valid_zone_count

\* Valid zones at 10, 3969, 4000 and 4000 mm: the median 3969 is the only zone
\* within 30 mm of itself, three of four zones are outliers.
C37_Witness ==
    /\ last.op = "computeMultiZoneConsensus"
    /\ last.ret.valid_zone_count = 4
    /\ last.ret.outlier_count = 3
    /\ last.ret.consensus_distance_mm = 3969

\* filterOutliers given 819, 850, 881 and their median 850 keeps the median only.
C37_WitnessFilter ==
    /\ last.op = "filterOutliers"
    /\ last.arg = [values |-> <<881, 819, 850>>, median |-> 850]
    /\ last.ret = [keep_flags |-> <<FALSE, FALSE, TRUE>>, kept_count |-> 1]

----------------------------------------------------------------------------
(* HeightController::calculateHeight called on its own (HeightSpec) with    *)
(* the calibration constant found in the configuration.                     *)

\* Calibration constants (int16, cm) stored in the configuration.
StoredConstants == {-32768, -700, -1, 0, 1, 20, 199, 200, 26214, 26215, 32767}
\* Filtered distances (uint16, mm) passed to calculateHeight.
FilteredDistances == {0, 9, 10, 1800, 1809, 2000, 7000, 32768, 65529, 65535}

InitHeight ==
    /\ now = 0
    /\ \E cal \in StoredConstants :
          cfg = [InitCfg(0) EXCEPT !.calibrationConstant_ = cal]
    /\ hc = InitHc(TRUE)
    /\ mc = InitMc(cfg)
    /\ last = [op |-> "init", ret |-> TRUE, from |-> "IDLE", arg |-> 0]
    /\ frames = 0
    /\ loopc = IdleCtx
    /\ webc = IdleCtx
    /\ filter = NewFilter(DEFAULT_FILTER_WINDOW_SIZE)
    /\ calls = <<>>
    /\ dc = NewDistanceController

CalculateHeight ==
    /\ last.op = "init"
    /\ \E filtered_mm \in FilteredDistances :
          last' = [op |-> "calculateHeight", ret |-> calculateHeight(cfg, filtered_mm),
                   from |-> "IDLE", arg |-> filtered_mm]
    /\ UNCHANGED <<now, cfg, hc, mc, frames, loopc, webc, filter, calls, dc>>

NextHeight == CalculateHeight

HeightSpec == InitHeight /\ [][NextHeight]_vars

\* C25: calculateHeight returns 0 for a calibration constant of 0 and
\* otherwise calibration constant + filtered_mm / 10 (truncating) clamped into
\* [0, 200], computed without loss of range.
C25_Original ==
    last.op = "calculateHeight" =>
        LET exact == cfg.calibrationConstant_ + last.arg \div 10 IN
        last.ret = IF cfg.calibrationConstant_ = 0 THEN 0
                   ELSE IF exact < 0 THEN 0
                   ELSE IF exact > 200 THEN 200
                   ELSE exact

----------------------------------------------------------------------------
(* HeightController::calibrate() called between updates (CalibrationSpec);  *)
(* last.arg keeps what the call was given.                                  *)

\* Known heights (cm) passed to calibrate().
KnownHeights == {30, 80, 100}
\* Numbers of usable samples among the NUM_SAMPLES taken.
UsableSamples == {0, 4, 5, 10}
\* What the sensor answers for a sample that is not usable.
UnusableSamples ==
    {[rangingOk |-> FALSE, zone |-> [status |-> 5, distance |-> 800]],
     [rangingOk |-> TRUE, zone |-> [status |-> 0, distance |-> 800]],
     [rangingOk |-> TRUE, zone |-> [status |-> 255, distance |-> 800]],
     [rangingOk |-> TRUE, zone |-> [status |-> 5, distance |-> 9]],
     [rangingOk |-> TRUE, zone |-> [status |-> 5, distance |-> 4001]]}
\* k usable samples of 800 mm spread among unusable ones.
SamplesWith(k, unusable) ==
    [i \in 1..NUM_SAMPLES |->
        IF (i % 2 = 0 /\ i \div 2 <= k) \/ (i % 2 = 1 /\ i \div 2 + 6 <= k)
        THEN [rangingOk |-> TRUE, zone |-> [status |-> 5, distance |-> 800]]
        ELSE unusable]

\* The control loop polls the sensor between two calibration requests.
Calibrate ==
    /\ NoCall
    /\ last.op /= "calibrate"
    /\ \E known \in KnownHeights, k \in UsableSamples, unusable \in UnusableSamples,
          writeOk \in BOOLEAN :
          LET samples == SamplesWith(k, unusable)
              r == calibrate(hc, cfg, known, samples, writeOk) IN
          /\ hc' = r.h
          /\ cfg' = r.c
          /\ last' = [op |-> "calibrate", ret |-> r.ret, from |-> mc.state_,
                      arg |-> [known_height_cm |-> known, samples |-> samples,
                               writeOk |-> writeOk]]
    /\ mc' = Fresh(mc)
    /\ UNCHANGED <<now, frames, loopc, webc, filter, calls, dc>>

NextCalibration ==
    \/ HeightUpdate
    \/ Calibrate

CalibrationSpec == Init /\ [][NextCalibration]_vars

\* The samples whose centre-zone reading is delivered, has a target and lies
\* in 10..4000 mm.
ValidSamples(samples) ==
    {i \in DOMAIN samples :
        /\ samples[i].rangingOk
        /\ samples[i].zone.status \notin {0, 255}
        /\ samples[i].zone.distance >= 10
        /\ samples[i].zone.distance <= 4000}

\* C26: a calibrate() call made with the sensor not initialised, with fewer
\* than 5 valid samples out of 10, or with a failing write of the constant
\* returns false and leaves the calibration constant, the stored preferences
\* and the temporal filter as they were.
C26_CalibrateFails ==
    [][(/\ last'.op = "calibrate"
        /\ last' /= last
        /\ \/ ~hc.sensorInitialized_
           \/ Cardinality(ValidSamples(last'.arg.samples)) * 2 < 10
           \/ ~last'.arg.writeOk)
       => /\ ~last'.ret
          /\ cfg' = cfg
          /\ hc'.filter_ = hc.filter_]_vars

\* A filter holding one sample survives a calibration whose 5 valid samples
\* could not be persisted.
C26_Witness ==
    /\ last.op = "calibrate" /\ ~last.ret
    /\ hc.sensorInitialized_
    /\ Cardinality(ValidSamples(last.arg.samples)) = 5
    /\ ~last.arg.writeOk
    /\ hc.filter_.sampleCount_ = 1
    /\ cfg.calibrationConstant_ = 20

\* The same filter survives a calibration with only 4 valid samples.
C26_WitnessFewSamples ==
    /\ last.op = "calibrate" /\ ~last.ret
    /\ hc.sensorInitialized_
    /\ Cardinality(ValidSamples(last.arg.samples)) = 4
    /\ last.arg.writeOk
    /\ hc.filter_.sampleCount_ = 1
    /\ cfg.calibrationConstant_ = 20

\* C39: after calibrate() returned true the system is calibrated:
\* isCalibrated() is true, whatever the known height and the sensor readings.
C39_Original ==
    (last.op = "calibrate" /\ last.ret) => isCalibrated(cfg)

----------------------------------------------------------------------------
(* SystemConfiguration height limits set in any order from the defaults     *)
(* (LimitsSpec)                                                             *)

\* Heights (uint16, cm) passed to setMinHeight() and setMaxHeight().
MinRequests == {0, 49, 51, 124, 125, 126, 65535}
MaxRequests == {0, 1, 50, 51, 124, 125, 126}
\* Sets of keys whose write fails during a factoryReset().
SaveFailures ==
    {{}, {KEY_MIN_HEIGHT}, {KEY_MAX_HEIGHT, KEY_FILTER_WIN},
     {KEY_CAL_CONST, KEY_MIN_HEIGHT, KEY_MAX_HEIGHT, KEY_TOLERANCE, KEY_STAB_DUR,
      KEY_MOVE_TIMEOUT, KEY_FILTER_WIN}}

\* The configuration of a device whose NVS namespace is empty.
DefaultCfg == applyDefaults([InitCfg(0) EXCEPT !.preferences_ = NoPreferences])

InitDefaults ==
    /\ now = 0
    /\ cfg = DefaultCfg
    /\ hc = InitHc(TRUE)
    /\ mc = InitMc(cfg)
    /\ last = [op |-> "init", ret |-> TRUE, from |-> "IDLE", arg |-> 0]
    /\ frames = 0
    /\ loopc = IdleCtx
    /\ webc = IdleCtx
    /\ filter = NewFilter(DEFAULT_FILTER_WINDOW_SIZE)
    /\ calls = <<>>
    /\ dc = NewDistanceController

SetMinHeight ==
    /\ \E value \in MinRequests, writeOk \in BOOLEAN :
          LET r == setMinHeight(cfg, value, writeOk) IN
          /\ cfg' = r.c
          /\ last' = [op |-> "setMinHeight", ret |-> r.ret, from |-> "IDLE",
                      arg |-> value]
    /\ UNCHANGED <<now, hc, mc, frames, loopc, webc, filter, calls, dc>>

SetMaxHeight ==
    /\ \E value \in MaxRequests, writeOk \in BOOLEAN :
          LET r == setMaxHeight(cfg, value, writeOk) IN
          /\ cfg' = r.c
          /\ last' = [op |-> "setMaxHeight", ret |-> r.ret, from |-> "IDLE",
                      arg |-> value]
    /\ UNCHANGED <<now, hc, mc, frames, loopc, webc, filter, calls, dc>>

FactoryReset ==
    /\ \E failing \in SaveFailures :
          LET r == factoryReset(cfg, failing) IN
          /\ cfg' = r.c
          /\ last' = [op |-> "factoryReset", ret |-> r.ret, from |-> "IDLE",
                      arg |-> Cardinality(failing)]
    /\ UNCHANGED <<now, hc, mc, frames, loopc, webc, filter, calls, dc>>

NextLimits ==
    \/ SetMinHeight
    \/ SetMaxHeight
    \/ FactoryReset

LimitsSpec == InitDefaults /\ [][NextLimits]_vars

\* C27: from the defaults and under any sequence of setMinHeight(),
\* setMaxHeight() and factoryReset() calls the minimum stays below the maximum,
\* and a setMinHeight(v) with v >= max or a setMaxHeight(v) with v <= min
\* returns false and changes neither limit.
C27_MinBelowMax ==
    /\ [](cfg.minHeight_ < cfg.maxHeight_)
    /\ [][(\/ last'.op = "setMinHeight" /\ last'.arg >= cfg.maxHeight_
           \/ last'.op = "setMaxHeight" /\ last'.arg <= cfg.minHeight_)
          /\ last' /= last
          => /\ ~last'.ret
             /\ cfg'.minHeight_ = cfg.minHeight_
             /\ cfg'.maxHeight_ = cfg.maxHeight_]_vars

\* With the minimum raised to 124 cm, setMinHeight(125) against the default
\* maximum of 125 cm was refused.
C27_Witness ==
    /\ last = [op |-> "setMinHeight", ret |-> FALSE, from |-> "IDLE", arg |-> 125]
    /\ cfg.minHeight_ = 124
    /\ cfg.maxHeight_ = 125
    /\ cfg.preferences_[KEY_MIN_HEIGHT] = 124

----------------------------------------------------------------------------
(* One SystemConfiguration setter called on a loaded configuration          *)
(* (SetterSpec); last.arg keeps the value passed and whether the NVS write  *)
(* succeeds.                                                                *)

\* Configurations the setter finds: factory defaults, a calibrated desk, and
\* one with narrowed limits.
LoadedConfigs ==
    {DefaultCfg, InitCfg(20),
     [InitCfg(20) EXCEPT !.minHeight_ = 60, !.maxHeight_ = 100, !.tolerance_ = 20]}
\* Values passed to the setters.
ConstantRequests == {-50, 0, 20}
LimitRequests == {0, 55, 60, 100, 110, 200}
ToleranceRequests == {0, 4, 5, 20, 50, 51}
DurationRequests == {0, 499, 500, 10000, 10001}
TimeoutRequests == {0, 9999, 10000, 60000, 60001}
WindowRequests == {0, 2, 3, 10, 11, 255}

InitLoaded ==
    /\ now = 0
    /\ cfg \in LoadedConfigs
    /\ hc = InitHc(TRUE)
    /\ mc = InitMc(cfg)
    /\ last = [op |-> "init", ret |-> TRUE, from |-> "IDLE", arg |-> 0]
    /\ frames = 0
    /\ loopc = IdleCtx
    /\ webc = IdleCtx
    /\ filter = NewFilter(DEFAULT_FILTER_WINDOW_SIZE)
    /\ calls = <<>>
    /\ dc = NewDistanceController

\* The step of a setter call that returned r for value and writeOk.
SetterCall(op, r, value, writeOk) ==
    /\ last.op = "init"
    /\ cfg' = r.c
    /\ last' = [op |-> op, ret |-> r.ret, from |-> "IDLE",
                arg |-> [value |-> value, writeOk |-> writeOk]]
    /\ UNCHANGED <<now, hc, mc, frames, loopc, webc, filter, calls, dc>>

SetCalibrationConstant ==
    \E value \in ConstantRequests, writeOk \in BOOLEAN :
        SetterCall("setCalibrationConstant",
                   setCalibrationConstant(cfg, value, writeOk), value, writeOk)

SetMinHeightOnce ==
    \E value \in LimitRequests, writeOk \in BOOLEAN :
        SetterCall("setMinHeight", setMinHeight(cfg, value, writeOk), value, writeOk)

SetMaxHeightOnce ==
    \E value \in LimitRequests, writeOk \in BOOLEAN :
        SetterCall("setMaxHeight", setMaxHeight(cfg, value, writeOk), value, writeOk)

SetTolerance ==
    \E value \in ToleranceRequests, writeOk \in BOOLEAN :
        SetterCall("setTolerance", setTolerance(cfg, value, writeOk), value, writeOk)

SetStabilizationDuration ==
    \E value \in DurationRequests, writeOk \in BOOLEAN :
        SetterCall("setStabilizationDuration",
                   setStabilizationDuration(cfg, value, writeOk), value, writeOk)

SetMovementTimeout ==
    \E value \in TimeoutRequests, writeOk \in BOOLEAN :
        SetterCall("setMovementTimeout", setMovementTimeout(cfg, value, writeOk),
                   value, writeOk)

SetFilterWindowSize ==
    \E value \in WindowRequests, writeOk \in BOOLEAN :
        SetterCall("setFilterWindowSize", setFilterWindowSize(cfg, value, writeOk),
                   value, writeOk)

NextSetter ==
    \/ SetCalibrationConstant
    \/ SetMinHeightOnce
    \/ SetMaxHeightOnce
    \/ SetTolerance
    \/ SetStabilizationDuration
    \/ SetMovementTimeout
    \/ SetFilterWindowSize

SetterSpec == InitLoaded /\ [][NextSetter]_vars

\* The cached field a setter writes, the NVS key it writes, and the range it
\* clamps the value into.
SetterTable ==
    [setCalibrationConstant |->
        [field |-> "calibrationConstant_", key |-> "cal_const", lo |-> -32768, hi |-> 32767],
     setMinHeight |-> [field |-> "minHeight_", key |-> "min_h", lo |-> 0, hi |-> 65535],
     setMaxHeight |-> [field |-> "maxHeight_", key |-> "max_h", lo |-> 0, hi |-> 65535],
     setTolerance |-> [field |-> "tolerance_", key |-> "tolerance", lo |-> 5, hi |-> 50],
     setStabilizationDuration |->
        [field |-> "stabilizationDuration_", key |-> "stab_dur", lo |-> 500, hi |-> 10000],
     setMovementTimeout |->
        [field |-> "movementTimeout_", key |-> "move_timeout", lo |-> 10000, hi |-> 60000],
     setFilterWindowSize |->
        [field |-> "filterWindowSize_", key |-> "filter_win", lo |-> 3, hi |-> 10]]

CachedFields ==
    {"calibrationConstant_", "minHeight_", "maxHeight_", "tolerance_",
     "stabilizationDuration_", "movementTimeout_", "filterWindowSize_"}

\* C28: a setter call either returns true with the clamped value both in the
\* cached configuration and under its key in persistent storage, every other
\* cached value being as before, or returns false with the whole cached
\* configuration as before; it returns false when the write fails.
C28_SetterAtomic ==
    [][last'.op \in DOMAIN SetterTable =>
          LET t == SetterTable[last'.op]
              v == last'.arg.value
              clamped == IF v < t.lo THEN t.lo ELSE IF v > t.hi THEN t.hi ELSE v IN
          /\ ~last'.arg.writeOk => ~last'.ret
          /\ last'.ret =>
                /\ cfg'[t.field] = clamped
                /\ t.key \in DOMAIN cfg'.preferences_
                /\ cfg'.preferences_[t.key] = clamped % 65536
                /\ \A f \in CachedFields \ {t.field} : cfg'[f] = cfg[f]
          /\ ~last'.ret => \A f \in CachedFields : cfg'[f] = cfg[f]]_vars

\* setTolerance(51) stored 50 in the cache and under "tolerance".
C28_Witness ==
    /\ last = [op |-> "setTolerance", ret |-> TRUE, from |-> "IDLE",
               arg |-> [value |-> 51, writeOk |-> TRUE]]
    /\ cfg.tolerance_ = 50
    /\ cfg.preferences_[KEY_TOLERANCE] = 50

\* setTolerance(5) whose write failed left the tolerance of 20 mm in place.
C28_WitnessWriteFails ==
    /\ last = [op |-> "setTolerance", ret |-> FALSE, from |-> "IDLE",
               arg |-> [value |-> 5, writeOk |-> FALSE]]
    /\ cfg.tolerance_ = 20
    /\ KEY_TOLERANCE \notin DOMAIN cfg.preferences_

----------------------------------------------------------------------------
(* calibrate() in the command-handler context, sample by sample, while the  *)
(* control loop polls the sensor (CalibrationConcSpec).  Neither            *)
(* handlePostCalibrate nor calibrate() nor update() takes a lock; the       *)
(* delay() calls of the sample loop let the other context run.              *)

\* The command-handler context inside the sample loop of calibrate().
SamplingCtx(known) ==
    [pc |-> "sampling", op |-> "calibrate", i |-> 0, sum |-> 0, validReadings |-> 0,
     known_height_cm |-> known]

\* What the sensor answers for one sample of the loop.
SampleAnswers ==
    {[rangingOk |-> TRUE, zone |-> [status |-> 5, distance |-> 800]],
     [rangingOk |-> TRUE, zone |-> [status |-> 0, distance |-> 0]]}

\* handlePostCalibrate calls calibrate(), which returns at once without a sensor.
CalibrateBegin ==
    /\ webc.pc = "idle"
    /\ last.op /= "calibrate"
    /\ \E known \in KnownHeights :
          /\ webc' = IF hc.sensorInitialized_ THEN SamplingCtx(known) ELSE IdleCtx
          /\ last' = [op |-> "calibrate", ret |-> FALSE, from |-> mc.state_,
                      arg |-> known]
    /\ UNCHANGED <<now, cfg, hc, mc, frames, loopc, filter, calls, dc>>

\* One pass of the sample loop.
CalibrateSample ==
    /\ webc.pc = "sampling"
    /\ webc.i < NUM_SAMPLES
    /\ \E sample \in SampleAnswers :
          LET raw == readSensor(sample.rangingOk, sample.zone)
              valid == validateReading(raw) = "VALID" IN
          webc' = [webc EXCEPT !.i = @ + 1,
                               !.sum = IF valid THEN @ + raw ELSE @,
                               !.validReadings = IF valid THEN @ + 1 ELSE @]
    /\ UNCHANGED <<now, cfg, hc, mc, last, frames, loopc, filter, calls, dc>>

\* The rest of calibrate() after the loop; the write of the constant may fail.
CalibrateFinish ==
    /\ webc.pc = "sampling"
    /\ webc.i = NUM_SAMPLES
    /\ \E writeOk \in BOOLEAN :
          LET avg_reading_mm == ToUInt16(webc.sum \div webc.validReadings)
              calibration_constant ==
                  ToInt16(ToInt16(webc.known_height_cm) - ToInt16(avg_reading_mm \div 10))
              s == setCalibrationConstant(cfg, calibration_constant, writeOk)
              Finished(ret) == [op |-> "calibrate", ret |-> ret, from |-> mc.state_,
                                arg |-> webc.known_height_cm] IN
          IF webc.validReadings < NUM_SAMPLES \div 2
          THEN /\ last' = Finished(FALSE)
               /\ UNCHANGED <<cfg, hc>>
          ELSE IF ~s.ret
          THEN /\ last' = Finished(FALSE)
               /\ cfg' = s.c
               /\ UNCHANGED hc
          ELSE /\ last' = Finished(TRUE)
               /\ cfg' = s.c
               /\ hc' = [hc EXCEPT !.filter_ = resetFilterState(@)]
    /\ webc' = IdleCtx
    /\ UNCHANGED <<now, mc, frames, loopc, filter, calls, dc>>

\* The control loop's HeightController::update(), whatever the handler is doing;
\* last.arg tells whether it took a frame from the sensor.
LoopHeightUpdate ==
    /\ loopc.pc = "idle"
    /\ \E dataReady \in BOOLEAN, frame \in Frames :
          /\ dataReady => frames < MaxFrames
          /\ ~dataReady => frame = UniformFrame(0, 0)
          /\ hc' = heightUpdate(hc, cfg, now, dataReady, TRUE, frame)
          /\ frames' = IF dataReady /\ hc.sensorInitialized_ THEN frames + 1 ELSE frames
          /\ last' = [op |-> "heightUpdate", ret |-> TRUE, from |-> mc.state_,
                      arg |-> IF dataReady /\ hc.sensorInitialized_ THEN 1 ELSE 0]
    /\ UNCHANGED <<now, cfg, mc, loopc, webc, filter, calls, dc>>

NextCalibrationConc ==
    \/ CalibrateBegin
    \/ CalibrateSample
    \/ CalibrateFinish
    \/ LoopHeightUpdate

CalibrationConcSpec == Init /\ [][NextCalibrationConc]_vars

\* C29: while the sample loop of calibrate() is running in the command-handler
\* context, no update() of the control loop has taken a frame from the sensor
\* and fed the temporal filter.
C29_Original ==
    ~(/\ webc.pc = "sampling"
      /\ webc.i > 0 /\ webc.i < NUM_SAMPLES
      /\ last.op = "heightUpdate" /\ last.arg = 1
      /\ hc.currentReading_.validity = "VALID"
      /\ hc.filter_.sampleCount_ > 0)

----------------------------------------------------------------------------
(* The target while the controller is busy (Spec) *)

\* C30: in MOVING_UP, MOVING_DOWN and STABILIZING the target is active, and
\* no motor pin is HIGH without an active target.
C30_Original ==
    /\ mc.state_ \in {"MOVING_UP", "MOVING_DOWN", "STABILIZING"} => mc.target_.active
    /\ (mc.up \/ mc.down) => mc.target_.active

----------------------------------------------------------------------------
\* C31: with update() being called and time advancing, a controller that is in
\* STABILIZING while the clock still has a tick to go always leaves STABILIZING
\* (to IDLE, to a MOVING state or to ERROR), whatever targets were accepted.
C31_Original ==
    (mc.state_ = "STABILIZING" /\ now < MaxTicks * TickMs)
        ~> (mc.state_ /= "STABILIZING")

\* C32: an update() that detects the movement timeout (MOVING state, usable
\* sensor, elapsed > movement_timeout_ms) and enters ERROR leaves the target
\* cleared: target_.active is false from that moment on.
C32_Original ==
    /\ [][(Update /\ mc.state_ \in Moving /\ TimedOut /\ checkSensorValidity(hc, now))
            => (mc'.state_ = "ERROR" /\ ~mc'.target_.active)]_vars
    /\ [](mc.state_ = "ERROR" /\ mc.lastError_ = MsgTimeout => ~mc.target_.active)

----------------------------------------------------------------------------
(* MovementController::update() polled while a movement ages (TimeoutSpec): *)
(* millis() is observed at instants that meet the movement timeout exactly. *)

\* Values of millis() (ms) at which the controller is called.
MoveTimes ==
    {0, 1, MIN_MOVEMENT_TIMEOUT_MS - 1, MIN_MOVEMENT_TIMEOUT_MS,
     MIN_MOVEMENT_TIMEOUT_MS + 1}

Advance ==
    /\ NoCall
    /\ \E t \in MoveTimes :
          /\ t > now
          /\ now' = t
    /\ mc' = Fresh(mc)
    /\ last' = [op |-> "tick", ret |-> TRUE, from |-> mc.state_, arg |-> 0]
    /\ UNCHANGED <<cfg, hc, frames, loopc, webc, filter, calls, dc>>

NextTimeout ==
    \/ Advance
    \/ HeightUpdate
    \/ SetTargetHeight
    \/ Update

TimeoutSpec == Init /\ [][NextTimeout]_vars

\* C33: an update() in a MOVING state with a usable sensor puts the controller
\* in ERROR when the elapsed movement time is exactly movement_timeout_ms, and
\* does not when it is one millisecond less.
C33_Original ==
    [][(Update /\ mc.state_ \in Moving /\ checkSensorValidity(hc, now))
        => /\ Elapsed(now, mc.movementStartTime_) = cfg.movementTimeout_
                => mc'.state_ = "ERROR"
           /\ Elapsed(now, mc.movementStartTime_) = cfg.movementTimeout_ - 1
                => mc'.state_ /= "ERROR"]_vars

\* C34: every accepted setTargetHeight() after which the controller is in
\* MOVING_UP or MOVING_DOWN has set the movement-start timestamp to the time of
\* the call, whatever state it was called in.
C34_Original ==
    [][(SetTargetHeight /\ last'.ret /\ mc'.state_ \in Moving)
        => mc'.movementStartTime_ = now]_vars

----------------------------------------------------------------------------
(* The tolerance reconfigured while targets are being served               *)
(* (ToleranceSpec): calls records, for the target accepted last, the        *)
(* tolerance SystemConfig held when setTargetHeight() accepted it.          *)

\* Tolerances (mm) written through the configuration while the desk is in use.
ToleranceChanges == {5, 20}

AcceptTarget ==
    /\ NoCall
    /\ \E h \in TargetHeights :
          LET r == setTargetHeight(Fresh(mc), hc, cfg, now, h) IN
          /\ mc' = r.m
          /\ last' = [op |-> "setTargetHeight", ret |-> r.ret, from |-> mc.state_, arg |-> h]
          /\ calls' = IF r.ret THEN <<cfg.tolerance_>> ELSE calls
    /\ UNCHANGED <<now, cfg, hc, frames, loopc, webc, filter, dc>>

ChangeTolerance ==
    /\ NoCall
    /\ \E value \in ToleranceChanges :
          /\ cfg' = setTolerance(cfg, value, TRUE).c
          /\ last' = [op |-> "setTolerance", ret |-> TRUE, from |-> mc.state_, arg |-> value]
    /\ mc' = Fresh(mc)
    /\ UNCHANGED <<now, hc, frames, loopc, webc, filter, calls, dc>>

NextTolerance ==
    \/ HeightUpdate
    \/ AcceptTarget
    \/ ChangeTolerance
    \/ Update

ToleranceSpec == Init /\ [][NextTolerance]_vars

\* The tolerance the configuration held when the active target was accepted.
ToleranceAtAccept == calls[1]

\* C35: the within-tolerance decision of update() for an active target uses
\* the tolerance configured when the target was accepted: a movement goes to
\* STABILIZING exactly when the height is within that tolerance of the target,
\* and a stabilization resumes moving exactly when it is not, whatever the
\* configured tolerance is by then.
C35_ToleranceSnapshot ==
    [][(Update /\ mc.target_.active /\ checkSensorValidity(hc, now))
        => /\ mc.state_ \in Moving =>
                (mc'.state_ = "STABILIZING"
                   <=> InTolerance(mc.target_.target_height_cm, ToleranceAtAccept))
           /\ mc.state_ = "STABILIZING" =>
                (mc'.state_ \in Moving
                   <=> ~InTolerance(mc.target_.target_height_cm, ToleranceAtAccept))]_vars

\* A movement stopped on a 10 mm error allowed by the tolerance of its
\* acceptance, after the configured tolerance was tightened below that error.
C35_Witness ==
    /\ last.op = "update" /\ last.from \in Moving /\ mc.state_ = "STABILIZING"
    /\ mc.target_.active
    /\ InTolerance(mc.target_.target_height_cm, ToleranceAtAccept)
    /\ ~InTolerance(mc.target_.target_height_cm, cfg.tolerance_)

\* A movement went on past a 10 mm error that the tolerance of its acceptance
\* forbids, after the configured tolerance was widened beyond that error.
C35_WitnessWidened ==
    /\ last.op = "update" /\ last.from \in Moving /\ mc.state_ \in Moving
    /\ mc.target_.active
    /\ ~InTolerance(mc.target_.target_height_cm, ToleranceAtAccept)
    /\ InTolerance(mc.target_.target_height_cm, cfg.tolerance_)

----------------------------------------------------------------------------
(* Frames of every kind fed to HeightController::update() (FeedSpec): the   *)
(* first frame is any of ConsensusFrames, later frames are those of Frames; *)
(* computeMultiZoneConsensus is also called on its own, keeping its frame.  *)

FirstFrame ==
    /\ last.op = "init"
    /\ \E frame \in ConsensusFrames :
          hc' = heightUpdate(hc, cfg, now, TRUE, TRUE, frame)
    /\ frames' = frames + 1
    /\ last' = [op |-> "heightUpdate", ret |-> TRUE, from |-> mc.state_, arg |-> 0]
    /\ UNCHANGED <<now, cfg, mc, loopc, webc, filter, calls, dc>>

NextFeed ==
    \/ ComputeMultiZoneConsensus
    \/ FirstFrame
    \/ HeightUpdate

FeedSpec == InitCall /\ [][NextFeed]_vars

\* C38: a reliable ConsensusResult has valid_zone_count in 4..16 and a
\* consensus distance within 30 mm of the median of the valid zones and within
\* [10, 4000]; every sample held by the temporal filter of HeightController,
\* which update() alone feeds, lies in [10, 4000].
C38_ConsensusRange ==
    /\ last.op = "computeMultiZoneConsensus" /\ last.ret.is_reliable =>
          LET frame == last.arg
              d == [z \in DOMAIN frame |-> frame[z].distance]
              median == d[LowerMedianAt(d, ValidZones(frame))]
              consensus == last.ret.consensus_distance_mm IN
          /\ last.ret.valid_zone_count \in MULTI_ZONE_MIN_VALID_ZONES..MULTI_ZONE_TOTAL_ZONES
          /\ consensus \in SENSOR_MIN_VALID_MM..SENSOR_MAX_RANGE_MM
          /\ Abs(consensus - median) <= MULTI_ZONE_OUTLIER_THRESHOLD_MM
    /\ hc.lastConsensus_.is_reliable =>
          hc.lastConsensus_.consensus_distance_mm
              \in SENSOR_MIN_VALID_MM..SENSOR_MAX_RANGE_MM
    /\ \A i \in 1..hc.filter_.sampleCount_ :
          hc.filter_.buffer_[i] \in SENSOR_MIN_VALID_MM..SENSOR_MAX_RANGE_MM

\* Four valid zones at 10 mm and one invalid at 9 mm: the consensus is the
\* lower end of the range and was fed to the filter.
C38_Witness ==
    /\ last.op = "heightUpdate"
    /\ hc.lastConsensus_ = [consensus_distance_mm |-> 10, valid_zone_count |-> 4,
                            outlier_count |-> 0, is_reliable |-> TRUE]
    /\ hc.filter_.sampleCount_ >= 1
    /\ hc.filter_.buffer_[1] = 10

\* A frame of zones at 4000 mm with an outlier: the upper end of the range.
C38_WitnessUpper ==
    /\ last.op = "computeMultiZoneConsensus"
    /\ last.ret.is_reliable
    /\ last.ret.consensus_distance_mm = 4000
    /\ last.ret.outlier_count >= 1

----------------------------------------------------------------------------
(* The legacy firmware (LegacySpec): the poll timer stores a positive       *)
(* estimated distance, the control task runs updateControlLoop(), and the   *)
(* serial task passes "set" commands to setTargetHeight().                  *)

\* Target heights (mm) typed on the serial console.
LegacyTargets == {50, 300, 500, 800, 1001}
\* Distances (mm) to the plane estimated from a frame.
LegacyDistances == {300, 500, 800}

LegacySetTargetHeight ==
    \E target \in LegacyTargets :
        /\ dc' = DistanceController_setTargetHeight(dc, target)
        /\ last' = [op |-> "setTargetHeight", ret |-> TRUE, from |-> "IDLE", arg |-> target]
        /\ UNCHANGED <<now, cfg, hc, mc, frames, loopc, webc, filter, calls>>

UpdateDistanceToPlane ==
    \E distance \in LegacyDistances :
        /\ dc' = updateDistanceToPlane(dc, distance)
        /\ last' = [op |-> "updateDistanceToPlane", ret |-> TRUE, from |-> "IDLE",
                    arg |-> distance]
        /\ UNCHANGED <<now, cfg, hc, mc, frames, loopc, webc, filter, calls>>

UpdateControlLoop ==
    /\ dc' = updateControlLoop(dc)
    /\ last' = [op |-> "updateControlLoop", ret |-> TRUE, from |-> "IDLE", arg |-> 0]
    /\ UNCHANGED <<now, cfg, hc, mc, frames, loopc, webc, filter, calls>>

NextLegacy ==
    \/ LegacySetTargetHeight
    \/ UpdateDistanceToPlane
    \/ UpdateControlLoop

LegacySpec == InitCall /\ [][NextLegacy]_vars

\* C40: after any sequence of setTargetHeight(), updateDistanceToPlane() and
\* updateControlLoop() calls of the legacy DistanceController the up and down
\* control pins are not both HIGH.
C40_Original == ~(dc.up /\ dc.down)

====
